---- MODULE Spec2Model ----
(***************************************************************************)
(* Resume assembly of rcanillas/resume-adapter: Resume.generate_resume and *)
(* Resume.generate_markdown (src/models/resume.py) with their external     *)
(* calls, the response parsers of the models, and the Resume page.  Python *)
(* str values are TLA+ strings; lists are sequences; dataclasses are       *)
(* records.                                                                *)
(***************************************************************************)
EXTENDS Integers, Sequences, FiniteSets, TLC

VARIABLES developer, job_offer, pc, response, relevant_skills,
          relevant_education, relevant_projects, relevant_work_experiences,
          exp_i, proj_j, years_exp, summary_parts, resume, calls,
          markdown_content, parser_response, parsed, session, page

\* the arguments, locals and results of generate_resume and generate_markdown
resume_vars == <<developer, job_offer, pc, response, relevant_skills,
                 relevant_education, relevant_projects, relevant_work_experiences,
                 exp_i, proj_j, years_exp, summary_parts, resume, calls,
                 markdown_content>>

\* the structured response handed to a from_text or cleanup_list call, and its result
parse_vars == <<parser_response, parsed>>

\* st.session_state and the outcome of the last run of the Resume page
page_vars == <<session, page>>

vars == <<resume_vars, parse_vars, page_vars>>

-----------------------------------------------------------------------------
(* Python built-ins used by generate_resume.                               *)

\* the characters str.lower() changes, with what it changes them to (ASCII)
LowerOf ==
    "A" :> "a" @@ "B" :> "b" @@ "C" :> "c" @@ "D" :> "d" @@ "E" :> "e" @@
    "F" :> "f" @@ "G" :> "g" @@ "H" :> "h" @@ "I" :> "i" @@ "J" :> "j" @@
    "K" :> "k" @@ "L" :> "l" @@ "M" :> "m" @@ "N" :> "n" @@ "O" :> "o" @@
    "P" :> "p" @@ "Q" :> "q" @@ "R" :> "r" @@ "S" :> "s" @@ "T" :> "t" @@
    "U" :> "u" @@ "V" :> "v" @@ "W" :> "w" @@ "X" :> "x" @@ "Y" :> "y" @@
    "Z" :> "z"

\* one character of str.lower()
lower_char(c) == IF c \in DOMAIN LowerOf THEN LowerOf[c] ELSE c

RECURSIVE lower(_)
\* str.lower()
lower(s) ==
    IF Len(s) = 0 THEN ""
    ELSE lower_char(SubSeq(s, 1, 1)) \o lower(SubSeq(s, 2, Len(s)))

\* `sub in s` on two str values: substring test (the empty string is in every string)
str_contains(sub, s) ==
    \E k \in 0..(Len(s) - Len(sub)) : SubSeq(s, k + 1, k + Len(sub)) = sub

\* `x in xs` on a list: some element equals x
list_contains(x, xs) == \E k \in 1..Len(xs) : xs[k] = x

RECURSIVE join(_, _)
\* sep.join(parts)
join(sep, parts) ==
    IF Len(parts) = 0 THEN ""
    ELSE IF Len(parts) = 1 THEN parts[1]
    ELSE parts[1] \o sep \o join(sep, Tail(parts))

Digits == "0123456789"

RECURSIVE str_nat(_)
str_nat(n) ==
    IF n < 10 THEN SubSeq(Digits, n + 1, n + 1)
    ELSE str_nat(n \div 10) \o SubSeq(Digits, (n % 10) + 1, (n % 10) + 1)

\* str(n) as an f-string renders an int
str_int(n) == IF n < 0 THEN "-" \o str_nat(0 - n) ELSE str_nat(n)

RECURSIVE sum(_)
\* sum(...) over a list of ints
sum(xs) == IF Len(xs) = 0 THEN 0 ELSE xs[1] + sum(Tail(xs))

\* xs[:n]
first_n(xs, n) == SubSeq(xs, 1, IF Len(xs) < n THEN Len(xs) ELSE n)

-----------------------------------------------------------------------------
(* The dataclasses read by generate_resume, with the fields it reads or    *)
(* hands to the external service.                                          *)

date(y, m, d) == [year |-> y, month |-> m, day |-> d]

Skill(name, level) == [name |-> name, level |-> level]

Education(institution_name, degree, field_of_study, start_date, end_date) ==
    [institution_name |-> institution_name, degree |-> degree,
     field_of_study |-> field_of_study, start_date |-> start_date,
     end_date |-> end_date]

Certification(name, issuing_organization, issue_date, expiration_date) ==
    [name |-> name, issuing_organization |-> issuing_organization,
     issue_date |-> issue_date, expiration_date |-> expiration_date]

Language(name, proficiency) == [name |-> name, proficiency |-> proficiency]

Achievement(title, description) == [title |-> title, description |-> description]

Project(project_name, technologies) ==
    [project_name |-> project_name, technologies |-> technologies]

Mission(job_title, company_name, start_date, end_date) ==
    [job_title |-> job_title, company_name |-> company_name,
     start_date |-> start_date, end_date |-> end_date]

WorkExperience(mission, projects) == [mission |-> mission, projects |-> projects]

\* a Python dict: its entries are reached by key, never as attributes
Dict(mapping) == [dict |-> mapping]

\* getattr(obj, name) succeeds: obj is an object with that attribute
has_attribute(obj, name) == name \in DOMAIN obj

JobRequirements(hard_skills, soft_skills, education_level, certifications, languages) ==
    [hard_skills |-> hard_skills, soft_skills |-> soft_skills,
     education_level |-> education_level, certifications |-> certifications,
     languages |-> languages]

JobOffer(job_title, company_name, requirements) ==
    [job_title |-> job_title, company_name |-> company_name,
     requirements |-> requirements]

Developer(name, website_url, technical_skills, work_experiences, education, certifications, languages, achievements) ==
    [name |-> name, website_url |-> website_url,
     technical_skills |-> technical_skills,
     work_experiences |-> work_experiences, education |-> education,
     certifications |-> certifications, languages |-> languages,
     achievements |-> achievements]

\* Python's None
None == [none |-> TRUE]

\* a str object held where the annotations promise a dataclass instance
PyStr(s) == [str |-> s]

\* f"{v}" of a str object
format_obj(v) == v.str

-----------------------------------------------------------------------------
(* create_test_data: the literal developer and job offer of the module's   *)
(* own test block.                                                         *)

test_project1 ==
    Project("E-commerce Platform Redesign",
            <<"React.js", "TypeScript", "Jest", "Redux", "Node.js">>)
test_project2 ==
    Project("Cloud Infrastructure Migration",
            <<"Python", "AWS", "Docker", "Terraform", "GitHub Actions">>)
test_project3 ==
    Project("Retro Mobile Game", <<"Unity", "C#", "Blender", "Android SDK">>)

test_work_experience1 ==
    WorkExperience(Mission("Senior Frontend Developer", "Tech Corp",
                           date(2020, 1, 1), date(2023, 1, 1)),
                   <<test_project1, test_project2>>)
test_work_experience2 ==
    WorkExperience(Mission("Game Developer", "Indie Games Studio",
                           date(2019, 6, 1), date(2019, 12, 1)),
                   <<test_project3>>)

test_skills ==
    <<Skill("React.js", "Expert"), Skill("TypeScript", "Advanced"),
      Skill("Python", "Intermediate"), Skill("Docker", "Beginner")>>

test_education ==
    <<Education("Tech University", "Bachelor's", "Computer Science",
                date(2015, 9, 1), date(2019, 6, 1))>>

test_certifications ==
    <<Certification("AWS Certified Developer", "Amazon Web Services",
                    date(2021, 1, 1), date(2024, 1, 1))>>

test_languages ==
    <<Language("English", "Native"), Language("French", "Intermediate")>>

test_achievements ==
    <<Achievement("Best Team Lead",
                  "Led team to successful delivery of major project")>>

test_developer ==
    Developer("John Doe", "johndoe.dev", test_skills,
              <<test_work_experience1, test_work_experience2>>,
              test_education, test_certifications, test_languages,
              test_achievements)

test_requirements ==
    JobRequirements(<<"React.js", "TypeScript", "Python", "AWS">>,
                    <<"Leadership", "Communication", "Problem Solving">>,
                    "Bachelor's", <<"AWS Certified">>, <<"English">>)

test_job_offer ==
    JobOffer("Senior Frontend Developer", "Tech Innovators Inc.", test_requirements)

-----------------------------------------------------------------------------
(* _match_developer_background after the external call has answered.       *)

\* variant: one Skill per name the service returned, in the service's order
skills_from_response(technical_skills, names) ==
    [k \in 1..Len(names) |-> Skill(names[k], "Expert")]

RECURSIVE skills_named(_, _)
\* [skill for skill in developer.technical_skills if skill.name in response.relevant_skills]
skills_named(technical_skills, names) ==
    IF Len(technical_skills) = 0 THEN <<>>
    ELSE (IF list_contains(technical_skills[1].name, names)
          THEN <<technical_skills[1]>> ELSE <<>>)
         \o skills_named(Tail(technical_skills), names)

\* [edu for edu in response.relevant_education]: the service's strings, as they are
education_from_response(resp) ==
    [k \in 1..Len(resp.relevant_education) |-> PyStr(resp.relevant_education[k])]

\* the pair _match_developer_background returns
match_developer_background(dev, resp) ==
    <<skills_named(dev.technical_skills, resp.relevant_skills),
      education_from_response(resp)>>

-----------------------------------------------------------------------------
(* The deterministic tail of Resume.generate_resume.                       *)

\* variant: both the start year and the end year count as a year worked
mission_years_inclusive(exp) ==
    exp.mission.end_date.year - exp.mission.start_date.year + 1

\* (exp.mission.end_date.year - exp.mission.start_date.year)
mission_years(exp) == exp.mission.end_date.year - exp.mission.start_date.year

\* variant: only the experiences judged relevant are summed
experiences_counted_relevant(dev, relevant) == relevant

\* the list generate_resume sums: one term per developer.work_experiences entry
experiences_counted(dev, relevant) == dev.work_experiences

\* years_exp = sum(... for exp in developer.work_experiences)
compute_years_exp(dev, relevant) ==
    LET counted == experiences_counted(dev, relevant)
    IN  sum([k \in 1..Len(counted) |-> mission_years(counted[k])])

\* variant: relevant_skills[:2]
top_two_skills(skills) == first_n(skills, 2)

\* relevant_skills[:3]
top_skills(skills) == first_n(skills, 3)

\* ", ".join(skill.name for skill in relevant_skills[:3])
skills_str(skills) ==
    LET top == top_skills(skills)
    IN  join(", ", [k \in 1..Len(top) |-> top[k].name])

\* summary_parts as appended to, in order
build_summary_parts(skills, education, years, job) ==
    (IF Len(skills) > 0 THEN <<"Experienced in " \o skills_str(skills)>> ELSE <<>>)
    \o (IF Len(education) > 0 THEN <<"with " \o format_obj(education[1])>> ELSE <<>>)
    \o <<"and " \o str_int(years) \o "+ years of relevant experience">>
    \o <<"seeking " \o job.job_title \o " position at " \o job.company_name>>

\* variant: certification names compared ignoring case
cert_required_ignoring_case(cert, required) ==
    \E k \in 1..Len(required) : lower(required[k]) = lower(cert.name)

\* variant: an offer that requires no certification accepts every certification
cert_required_or_none_required(cert, required) ==
    Len(required) = 0 \/ list_contains(cert.name, required)

\* cert.name in job_offer.requirements.certifications
cert_required(cert, required) == list_contains(cert.name, required)

RECURSIVE filter_certifications(_, _)
\* [cert for cert in developer.certifications if cert.name in ...certifications]
filter_certifications(certs, required) ==
    IF Len(certs) = 0 THEN <<>>
    ELSE (IF cert_required(certs[1], required) THEN <<certs[1]>> ELSE <<>>)
         \o filter_certifications(Tail(certs), required)

\* variant: language names compared ignoring case
lang_required_ignoring_case(lang, required) ==
    \E k \in 1..Len(required) : lower(required[k]) = lower(lang.name)

\* lang.name in job_offer.requirements.languages
lang_required(lang, required) == list_contains(lang.name, required)

RECURSIVE filter_languages(_, _)
\* [lang for lang in developer.languages if lang.name in ...languages]
filter_languages(langs, required) ==
    IF Len(langs) = 0 THEN <<>>
    ELSE (IF lang_required(langs[1], required) THEN <<langs[1]>> ELSE <<>>)
         \o filter_languages(Tail(langs), required)

\* f"{achievement.title} {achievement.description}".lower()
achievement_text(achievement) ==
    lower(achievement.title \o " " \o achievement.description)

\* variant: the skill name is not lower-cased before the substring test
is_relevant_case_sensitive(achievement, requirements) ==
    LET skills == requirements.hard_skills \o requirements.soft_skills
        text == lower(achievement.title \o " " \o achievement.description)
    IN  \E k \in 1..Len(skills) : str_contains(skills[k], text)

\* variant: all(...) in place of any(...)
is_relevant_to_all(achievement, requirements) ==
    LET skills == requirements.hard_skills \o requirements.soft_skills
        text == lower(achievement.title \o " " \o achievement.description)
    IN  \A k \in 1..Len(skills) : str_contains(lower(skills[k]), text)

\* any(skill.lower() in achievement_text for skill in hard_skills + soft_skills)
is_relevant(achievement, requirements) ==
    LET skills == requirements.hard_skills \o requirements.soft_skills
        text == achievement_text(achievement)
    IN  \E k \in 1..Len(skills) : str_contains(lower(skills[k]), text)

RECURSIVE select_achievements(_, _)
\* the loop over developer.achievements appending the relevant ones
select_achievements(achievements, requirements) ==
    IF Len(achievements) = 0 THEN <<>>
    ELSE (IF is_relevant(achievements[1], requirements)
          THEN <<achievements[1]>> ELSE <<>>)
         \o select_achievements(Tail(achievements), requirements)

\* cls(developer=..., ..., highlighted_achievements=relevant_achievements)
Resume(dev, job, summary, skills, experience, education) ==
    [developer |-> dev, job_offer |-> job,
     professional_summary |-> summary,
     relevant_skills |-> skills,
     relevant_experience |-> experience,
     relevant_certifications |->
         filter_certifications(dev.certifications, job.requirements.certifications),
     relevant_education |-> education,
     relevant_languages |->
         filter_languages(dev.languages, job.requirements.languages),
     highlighted_achievements |->
         select_achievements(dev.achievements, job.requirements)]

-----------------------------------------------------------------------------
(* Inputs: the developers and job offers generate_resume is called with.   *)

\* longest list drawn for a field of the developer or of the requirements
MaxList == 2

ListsUpTo(S, n) == UNION {[1..k -> S] : k \in 0..n}

RECURSIVE SubLists(_)
\* every order-preserving sub-list of xs
SubLists(xs) ==
    IF Len(xs) = 0 THEN {<<>>}
    ELSE LET rest == SubLists(Tail(xs))
         IN  rest \cup {<<xs[1]>> \o r : r \in rest}

Reverse(xs) == [k \in 1..Len(xs) |-> xs[Len(xs) + 1 - k]]

empty_developer == Developer("John Doe", "", <<>>, <<>>, <<>>, <<>>, <<>>, <<>>)

CertificationPool ==
    {Certification("AWS Certified Developer", "Amazon Web Services",
                   date(2021, 1, 1), date(2024, 1, 1)),
     Certification("AWS Certified", "Amazon Web Services",
                   date(2022, 1, 1), date(2025, 1, 1)),
     Certification("AWS Certified", "Training Partner", date(2020, 5, 1), None),
     Certification("aws certified", "Amazon Web Services",
                   date(2022, 1, 1), date(2025, 1, 1))}

RequiredCertificationPool == {"AWS Certified", "AWS CERTIFIED", "Scrum Master"}

CertificationInputs ==
    {<<[empty_developer EXCEPT !.certifications = c],
       [test_job_offer EXCEPT !.requirements.certifications = r]>> :
        c \in ListsUpTo(CertificationPool, MaxList),
        r \in ListsUpTo(RequiredCertificationPool, MaxList)}

LanguagePool ==
    {Language("English", "Native"), Language("French", "Intermediate"),
     Language("english", "Fluent")}

RequiredLanguagePool == {"English", "French", "FRENCH"}

LanguageInputs ==
    {<<[empty_developer EXCEPT !.languages = l],
       [test_job_offer EXCEPT !.requirements.languages = r]>> :
        l \in ListsUpTo(LanguagePool, MaxList),
        r \in ListsUpTo(RequiredLanguagePool, MaxList)}

AchievementPool ==
    {Achievement("Best Team Lead",
                 "Led team to successful delivery of major project"),
     Achievement("Hackathon winner", "Built a Python chatbot in 24 hours"),
     Achievement("Speaker", "Talk about accessibility")}

HardSkillPool == {"PYTHON", "React.js", "Lead Led"}

SoftSkillLists == {<<>>, <<"Leadership">>, <<"Delivery", "winnerbuilt">>}

AchievementInputs ==
    {<<[empty_developer EXCEPT !.achievements = a],
       [test_job_offer EXCEPT !.requirements.hard_skills = h,
                              !.requirements.soft_skills = s]>> :
        a \in ListsUpTo(AchievementPool, MaxList),
        h \in ListsUpTo(HardSkillPool, MaxList),
        s \in SoftSkillLists}

WorkExperiencePool ==
    {test_work_experience1, test_work_experience2,
     WorkExperience(Mission("Consultant", "Freelance",
                            date(2023, 11, 1), date(2024, 2, 1)), <<>>)}

ExperienceInputs ==
    {<<[empty_developer EXCEPT !.work_experiences = w], test_job_offer>> :
        w \in ListsUpTo(WorkExperiencePool, MaxList)}

\* a work experience as the profile page builds it: the mission is a dict
dict_work_experience ==
    WorkExperience(Dict(Mission("Consultant", "Freelance",
                                date(2023, 11, 1), date(2024, 2, 1))), <<>>)

DictMissionInputs ==
    {<<[empty_developer EXCEPT !.work_experiences = <<dict_work_experience>>],
       test_job_offer>>}

SkillLists ==
    {SubSeq(test_skills, 1, n) : n \in 0..Len(test_skills)}
    \cup {<<Skill("Python", "Expert"), Skill("Docker", "Beginner"),
            Skill("Python", "Basic")>>}

BackgroundInputs ==
    {<<[empty_developer EXCEPT !.technical_skills = t, !.education = e],
       test_job_offer>> :
        t \in SkillLists, e \in {<<>>, test_education}}

Inputs ==
    CertificationInputs \cup LanguageInputs \cup AchievementInputs
    \cup ExperienceInputs \cup BackgroundInputs \cup DictMissionInputs
    \cup {<<test_developer, test_job_offer>>}

-----------------------------------------------------------------------------
(* Answers of the external service.                                        *)

\* a skill name the service may return although no candidate has it
foreign_skill == "Kubernetes"

\* an education entry the service may write although no candidate has it
foreign_education == "Master's in Data Science"

\* the service describes an education entry of the candidate in its own words
education_phrase(edu) == edu.degree \o " in " \o edu.field_of_study

\* BackgroundMatchResponse values for a developer
BackgroundResponses(dev) ==
    LET names == [k \in 1..Len(dev.technical_skills) |-> dev.technical_skills[k].name]
        edus  == [k \in 1..Len(dev.education) |-> education_phrase(dev.education[k])]
    IN  {[relevant_skills |-> rs, relevant_education |-> re] :
            rs \in SubLists(<<foreign_skill>> \o Reverse(names)),
            re \in SubLists(<<foreign_education>> \o Reverse(edus))}

\* ProjectMatchResponse.matching_reason values
MatchingReasons == {"technologies overlap", "transferable experience"}

-----------------------------------------------------------------------------
(* Resume.generate_resume as a process: it stops at each external call,    *)
(* and an action runs from one call's answer to the next call or to the    *)
(* return.                                                                 *)

\* st.session_state with no key set
empty_session == [key \in {} |-> None]

\* nothing is being parsed and no page has run
OtherIdle ==
    /\ parser_response = None
    /\ parsed = None
    /\ session = empty_session
    /\ page = "not run"

\* the locals of generate_resume and generate_markdown before a run
FreshLocals ==
    /\ response = None
    /\ relevant_skills = <<>>
    /\ relevant_education = <<>>
    /\ relevant_projects = <<>>
    /\ relevant_work_experiences = <<>>
    /\ exp_i = 1
    /\ proj_j = 1
    /\ years_exp = 0
    /\ summary_parts = <<>>
    /\ resume = None
    /\ calls = <<>>
    /\ markdown_content = None

Init ==
    /\ \E input \in Inputs :
           /\ developer = input[1]
           /\ job_offer = input[2]
    /\ pc = "background"
    /\ FreshLocals
    /\ OtherIdle

\* variant: the inner loop index is not reset when the outer loop moves on
RECURSIVE next_project_index_kept(_, _, _)
next_project_index_kept(work_experiences, i, j) ==
    IF i > Len(work_experiences) THEN <<i, 1>>
    ELSE IF j <= Len(work_experiences[i].projects) THEN <<i, j>>
    ELSE next_project_index_kept(work_experiences, i + 1, j)

RECURSIVE next_project(_, _, _)
\* the nested for loops: the first (exp, project) position at or after (i, j)
next_project(work_experiences, i, j) ==
    IF i > Len(work_experiences) THEN <<i, 1>>
    ELSE IF j <= Len(work_experiences[i].projects) THEN <<i, j>>
    ELSE next_project(work_experiences, i + 1, 1)

\* from the end of a call to the next project call, or through the summary,
\* the filters and the return when no project is left
Continue(pos, skills, education, experiences) ==
    IF pos[1] <= Len(developer.work_experiences)
    THEN /\ pc' = "project"
         /\ exp_i' = pos[1]
         /\ proj_j' = pos[2]
         /\ UNCHANGED <<years_exp, summary_parts, resume>>
    ELSE LET years == compute_years_exp(developer, experiences)
             parts == build_summary_parts(skills, education, years, job_offer)
         IN  /\ pc' = "done"
             /\ exp_i' = pos[1]
             /\ proj_j' = pos[2]
             /\ years_exp' = years
             /\ summary_parts' = parts
             /\ resume' = Resume(developer, job_offer, join(" ", parts),
                                 skills, experiences, education)

\* one chain.invoke of the background matcher, with how it ended
background_call(outcome) == [kind |-> "background", outcome |-> outcome]

\* one chain.invoke of the project matcher, with how it ended
project_call(i, j, outcome) ==
    [kind |-> "project", exp |-> i, project |-> j, outcome |-> outcome]

\* one chain.invoke of the markdown writer, with how it ended
markdown_call(outcome) == [kind |-> "markdown", outcome |-> outcome]

\* building background_dict raises AttributeError: some exp.mission has no
\* attribute job_title
background_dict_raises(dev) ==
    \E k \in 1..Len(dev.work_experiences) :
        ~has_attribute(dev.work_experiences[k].mission, "job_title")

\* _match_developer_background raises while it builds background_dict, before
\* chain.invoke; generate_resume raises
BackgroundDictRaises ==
    /\ pc = "background"
    /\ background_dict_raises(developer)
    /\ pc' = "raised"
    /\ UNCHANGED <<developer, job_offer, response, relevant_skills,
                   relevant_education, relevant_projects,
                   relevant_work_experiences, exp_i, proj_j, years_exp,
                   summary_parts, resume, calls, markdown_content>>
    /\ UNCHANGED <<parse_vars, page_vars>>

\* _match_developer_background answers; the project loop starts
BackgroundMatch(resp) ==
    /\ pc = "background"
    /\ ~background_dict_raises(developer)
    /\ calls' = Append(calls, background_call("answered"))
    /\ response' = resp
    /\ LET matched == match_developer_background(developer, resp)
       IN  /\ relevant_skills' = matched[1]
           /\ relevant_education' = matched[2]
           /\ Continue(next_project(developer.work_experiences, 1, 1),
                       matched[1], matched[2], relevant_work_experiences)
    /\ UNCHANGED <<developer, job_offer, relevant_projects,
                   relevant_work_experiences, markdown_content>>
    /\ UNCHANGED <<parse_vars, page_vars>>

\* what a raising chain.invoke leaves of generate_resume: the exception leaves
\* the function, nothing is returned
call_raises(call) ==
    /\ calls' = Append(calls, call)
    /\ pc' = "raised"
    /\ UNCHANGED <<developer, job_offer, response, relevant_skills,
                   relevant_education, relevant_projects,
                   relevant_work_experiences, exp_i, proj_j, years_exp,
                   summary_parts, resume, markdown_content>>

\* chain.invoke of the background matcher raises; generate_resume raises
BackgroundMatchRaises ==
    /\ pc = "background"
    /\ ~background_dict_raises(developer)
    /\ call_raises(background_call("raised"))
    /\ UNCHANGED <<parse_vars, page_vars>>

\* variant: the experience is listed once, however many of its projects match
append_experience_once(experiences, exp) ==
    IF \E k \in 1..Len(experiences) : experiences[k] = exp
    THEN experiences ELSE Append(experiences, exp)

\* relevant_work_experiences.append(exp)
append_experience(experiences, exp) == Append(experiences, exp)

\* the body of the inner loop once the project matcher has answered
project_answered(is_match, matching_reason) ==
    /\ calls' = Append(calls, project_call(exp_i, proj_j,
                                           IF is_match THEN "match" ELSE "no match"))
    /\ LET exp == developer.work_experiences[exp_i]
           project == exp.projects[proj_j]
           projects == IF is_match
                       THEN Append(relevant_projects, <<project, matching_reason>>)
                       ELSE relevant_projects
           experiences == IF is_match
                          THEN append_experience(relevant_work_experiences, exp)
                          ELSE relevant_work_experiences
       IN  /\ relevant_projects' = projects
           /\ relevant_work_experiences' = experiences
           /\ Continue(next_project(developer.work_experiences, exp_i, proj_j + 1),
                       relevant_skills, relevant_education, experiences)
    /\ UNCHANGED <<developer, job_offer, response, relevant_skills,
                   relevant_education, markdown_content>>

\* _match_project_to_requirements answers for project proj_j of experience exp_i
ProjectMatch(is_match, matching_reason) ==
    /\ pc = "project"
    /\ project_answered(is_match, matching_reason)
    /\ UNCHANGED <<parse_vars, page_vars>>

\* variant: a failed project match counts as "no match" and the loop goes on
project_call_fails_as_no_match ==
    /\ calls' = Append(calls, project_call(exp_i, proj_j, "raised"))
    /\ relevant_projects' = relevant_projects
    /\ relevant_work_experiences' = relevant_work_experiences
    /\ Continue(next_project(developer.work_experiences, exp_i, proj_j + 1),
                relevant_skills, relevant_education, relevant_work_experiences)
    /\ UNCHANGED <<developer, job_offer, response, relevant_skills,
                   relevant_education, markdown_content>>

\* chain.invoke of the project matcher raises inside the loop: no try, no retry
project_call_fails == call_raises(project_call(exp_i, proj_j, "raised"))

\* chain.invoke of the project matcher raises; generate_resume raises
ProjectMatchRaises ==
    /\ pc = "project"
    /\ project_call_fails
    /\ UNCHANGED <<parse_vars, page_vars>>

-----------------------------------------------------------------------------
(* Resume.generate_markdown on the Resume that generate_resume returned.   *)

\* building resume_data raises: cert.expiration_date.strftime(...) on a relevant
\* certification whose expiration_date is None
resume_data_raises(r) ==
    \E k \in 1..Len(r.relevant_certifications) :
        r.relevant_certifications[k].expiration_date = None

\* response.content values of the markdown writer
MarkdownContents == {"# John Doe"}

\* the locals of generate_resume, which generate_markdown does not touch
generate_resume_locals ==
    <<developer, job_offer, response, relevant_skills, relevant_education,
      relevant_projects, relevant_work_experiences, exp_i, proj_j, years_exp,
      summary_parts, resume>>

\* resume_data is built, the one chain.invoke answers, its content is returned
markdown_answered(content) ==
    /\ ~resume_data_raises(resume)
    /\ calls' = Append(calls, markdown_call("answered"))
    /\ markdown_content' = content
    /\ pc' = "markdown done"
    /\ UNCHANGED generate_resume_locals

\* resume_data is built and the one chain.invoke raises
markdown_call_raises ==
    /\ ~resume_data_raises(resume)
    /\ calls' = Append(calls, markdown_call("raised"))
    /\ pc' = "markdown raised"
    /\ UNCHANGED <<generate_resume_locals, markdown_content>>

\* building resume_data raises before any call is made
markdown_data_raises ==
    /\ resume_data_raises(resume)
    /\ pc' = "markdown raised"
    /\ UNCHANGED <<generate_resume_locals, markdown_content, calls>>

GenerateMarkdown(content) ==
    /\ pc = "done"
    /\ markdown_answered(content)
    /\ UNCHANGED <<parse_vars, page_vars>>

GenerateMarkdownCallRaises ==
    /\ pc = "done"
    /\ markdown_call_raises
    /\ UNCHANGED <<parse_vars, page_vars>>

GenerateMarkdownDataRaises ==
    /\ pc = "done"
    /\ markdown_data_raises
    /\ UNCHANGED <<parse_vars, page_vars>>

Next ==
    \/ \E resp \in BackgroundResponses(developer) : BackgroundMatch(resp)
    \/ BackgroundMatchRaises
    \/ BackgroundDictRaises
    \/ \E is_match \in BOOLEAN :
           \E matching_reason \in MatchingReasons :
               ProjectMatch(is_match, matching_reason)
    \/ ProjectMatchRaises
    \/ \E content \in MarkdownContents : GenerateMarkdown(content)
    \/ GenerateMarkdownCallRaises
    \/ GenerateMarkdownDataRaises

Spec == Init /\ [][Next]_vars

-----------------------------------------------------------------------------
(* Properties of the returned Resume.                                      *)

Returned == pc = "done"

\* the set of elements of a list
Elements(xs) == {xs[k] : k \in 1..Len(xs)}

\* the entries of xs whose name is one of the names, in the order of xs
NamedIn(xs, names) ==
    LET Named(x) == x.name \in Elements(names)
    IN  SelectSeq(xs, Named)

\* C1: the returned relevant_certifications are exactly the candidate's
\* certifications whose name is an exact, case-sensitive member of the offer's
\* required certification names, in the candidate's order, none added, none dropped.
C1_RelevantCertificationsExact ==
    Returned =>
        resume.relevant_certifications =
            NamedIn(developer.certifications, job_offer.requirements.certifications)

\* a certification is kept, and another is dropped whose name differs from a
\* required name by case only
C1_Witness ==
    /\ Returned
    /\ Len(resume.relevant_certifications) > 0
    /\ \E c \in Elements(developer.certifications) :
           /\ c \notin Elements(resume.relevant_certifications)
           /\ \E r \in Elements(job_offer.requirements.certifications) :
                  lower(r) = lower(c.name)

\* C2: the returned relevant_languages are exactly the candidate's languages
\* whose name is an exact, case-sensitive member of the offer's required
\* language names, in the candidate's order.
C2_RelevantLanguagesExact ==
    Returned =>
        resume.relevant_languages =
            NamedIn(developer.languages, job_offer.requirements.languages)

\* a language is kept, and another is dropped whose name differs from a
\* required name by case only
C2_Witness ==
    /\ Returned
    /\ Len(resume.relevant_languages) > 0
    /\ \E l \in Elements(developer.languages) :
           /\ l \notin Elements(resume.relevant_languages)
           /\ \E r \in Elements(job_offer.requirements.languages) :
                  lower(r) = lower(l.name)

\* C3: when the offer requires no certification, the returned
\* relevant_certifications list is empty whatever certifications the candidate holds.
C3_NoRequiredCertificationsNoneRelevant ==
    (Returned /\ Len(job_offer.requirements.certifications) = 0) =>
        Len(resume.relevant_certifications) = 0

\* a candidate with two certifications and an offer requiring none
C3_Witness ==
    /\ Returned
    /\ Len(job_offer.requirements.certifications) = 0
    /\ Len(developer.certifications) = 2

\* the skill names of an offer, hard then soft
RequiredSkills(requirements) ==
    Elements(requirements.hard_skills) \cup Elements(requirements.soft_skills)

\* some name of the set, compared case-insensitively, is a substring of text
SomeSkillIn(skills, text) ==
    \E skill \in skills : str_contains(lower(skill), lower(text))

\* C4 as stated: an achievement is highlighted iff some required skill name,
\* compared case-insensitively, is a substring of the title concatenated with
\* the description; the candidate's order is kept.
C4_HighlightedByTitleDescription ==
    Returned =>
        LET Matches(a) ==
                SomeSkillIn(RequiredSkills(job_offer.requirements),
                            a.title \o a.description)
        IN  resume.highlighted_achievements =
                SelectSeq(developer.achievements, Matches)

\* C4 amended: an achievement is highlighted iff some required skill name,
\* compared case-insensitively, is a substring of the title, one space and the
\* description joined in that order; the candidate's order is kept.
C4_HighlightedByTitleSpaceDescription ==
    Returned =>
        LET Matches(a) ==
                SomeSkillIn(RequiredSkills(job_offer.requirements),
                            a.title \o " " \o a.description)
        IN  resume.highlighted_achievements =
                SelectSeq(developer.achievements, Matches)

\* an achievement is highlighted through a skill whose name is in the text only
\* up to case, and another achievement of the candidate is left out
C4_Witness ==
    /\ Returned
    /\ \E a \in Elements(resume.highlighted_achievements) :
           \A skill \in RequiredSkills(job_offer.requirements) :
               ~str_contains(skill, a.title \o " " \o a.description)
    /\ \E a \in Elements(developer.achievements) :
           a \notin Elements(resume.highlighted_achievements)

\* xs is ys with some entries left out
IsSubList(xs, ys) == xs \in SubLists(ys)

\* the skill names drawn for offers
SkillNames ==
    HardSkillPool \cup UNION {Elements(s) : s \in SoftSkillLists}

\* the skill's name is in the text of one of the achievements
AppearsInSomeAchievement(skill, achievements) ==
    \E a \in Elements(achievements) :
        str_contains(lower(skill), lower(a.title \o " " \o a.description))

\* C5: the achievement filter is monotonic in the required skills: with one
\* more required skill (hard or soft) whose name appears in an achievement's
\* text, every achievement highlighted before is still highlighted, in order.
C5_AchievementFilterMonotonic ==
    Returned =>
        \A skill \in SkillNames :
            AppearsInSomeAchievement(skill, developer.achievements) =>
                LET req == job_offer.requirements
                    hard == [req EXCEPT !.hard_skills = Append(@, skill)]
                    soft == [req EXCEPT !.soft_skills = Append(@, skill)]
                IN  /\ IsSubList(resume.highlighted_achievements,
                                 select_achievements(developer.achievements, hard))
                    /\ IsSubList(resume.highlighted_achievements,
                                 select_achievements(developer.achievements, soft))

\* an achievement is highlighted, and a skill not yet required whose name is in
\* another achievement's text brings that achievement in when added
C5_Witness ==
    /\ Returned
    /\ Len(resume.highlighted_achievements) > 0
    /\ \E skill \in SkillNames \ RequiredSkills(job_offer.requirements) :
           /\ AppearsInSomeAchievement(skill, developer.achievements)
           /\ Len(select_achievements(developer.achievements,
                      [job_offer.requirements EXCEPT !.hard_skills = Append(@, skill)]))
                  > Len(resume.highlighted_achievements)

\* end year minus start year, added up over the first n work experiences
YearsOver(work_experiences) ==
    LET upto[n \in 0..Len(work_experiences)] ==
            IF n = 0 THEN 0
            ELSE upto[n - 1] + work_experiences[n].mission.end_date.year
                             - work_experiences[n].mission.start_date.year
    IN  upto[Len(work_experiences)]

\* C6: the years-of-experience number of the professional summary is the sum
\* of (end_date.year - start_date.year) over all of the developer's work
\* experiences, relevant or not, and 0 when there are none.
C6_YearsSumOverAllExperiences ==
    Returned =>
        /\ years_exp = YearsOver(developer.work_experiences)
        /\ Len(developer.work_experiences) = 0 => years_exp = 0
        /\ str_contains("and " \o str_int(years_exp) \o "+ years of relevant experience",
                        resume.professional_summary)

\* two or more work experiences with a positive total, one of them not relevant
C6_Witness ==
    /\ Returned
    /\ Len(developer.work_experiences) >= 2
    /\ years_exp > 0
    /\ \E exp \in Elements(developer.work_experiences) :
           /\ exp \notin Elements(resume.relevant_experience)
           /\ exp.mission.end_date.year > exp.mission.start_date.year

\* exactly two missions, one spanning 2020 to 2023 and one spanning 2019 to 2019
TwoTestMissions ==
    /\ Len(developer.work_experiences) = 2
    /\ \E k \in 1..2 :
           /\ developer.work_experiences[k].mission.start_date.year = 2020
           /\ developer.work_experiences[k].mission.end_date.year = 2023
           /\ developer.work_experiences[3 - k].mission.start_date.year = 2019
           /\ developer.work_experiences[3 - k].mission.end_date.year = 2019

\* C7 as stated: for two missions spanning 2020-2023 and 2019-2019 the
\* years-of-experience aggregate is 4.
C7_TestMissionsTotalFour ==
    (Returned /\ TwoTestMissions) => years_exp = 4

\* C7 amended: for two missions spanning 2020-2023 and 2019-2019 the
\* years-of-experience aggregate is 3.
C7_TestMissionsTotalThree ==
    (Returned /\ TwoTestMissions) => years_exp = 3

\* generate_resume has returned for the developer of create_test_data
C7_Witness ==
    /\ Returned
    /\ TwoTestMissions
    /\ developer = test_developer

\* C8: the professional summary is, joined by single spaces and in this order:
\* the names of at most the first three relevant skills (left out when there is
\* none), the first relevant education entry (left out when there is none), the
\* years-of-experience part and the target job title and company name.
C8_SummaryLayout ==
    Returned =>
        LET skills == resume.relevant_skills
            skills_part ==
                CASE Len(skills) = 0 -> ""
                  [] Len(skills) = 1 -> "Experienced in " \o skills[1].name \o " "
                  [] Len(skills) = 2 ->
                        "Experienced in " \o skills[1].name \o ", "
                            \o skills[2].name \o " "
                  [] OTHER ->
                        "Experienced in " \o skills[1].name \o ", "
                            \o skills[2].name \o ", " \o skills[3].name \o " "
            education_part ==
                IF Len(resume.relevant_education) = 0 THEN ""
                ELSE "with " \o resume.relevant_education[1].str \o " "
        IN  resume.professional_summary =
                skills_part \o education_part
                \o "and " \o str_int(years_exp) \o "+ years of relevant experience"
                \o " seeking " \o job_offer.job_title
                \o " position at " \o job_offer.company_name

\* four relevant skills and two relevant education entries: the fourth skill
\* and the second entry are not in the summary
C8_Witness ==
    /\ Returned
    /\ Len(resume.relevant_skills) = 4
    /\ Len(resume.relevant_education) = 2
    /\ ~str_contains(resume.relevant_skills[4].name, resume.professional_summary)
    /\ ~str_contains(resume.relevant_education[2].str, resume.professional_summary)

\* the background matcher has answered
BackgroundMatched == pc \in {"project", "done"}

\* C9: the relevant skills are a sub-list of the candidate's technical_skills,
\* in the candidate's order, and hold no skill the candidate does not have even
\* when the service names one; the Resume carries that list.
C9_RelevantSkillsAreCandidateSkills ==
    /\ BackgroundMatched =>
           /\ IsSubList(relevant_skills, developer.technical_skills)
           /\ \A skill \in Elements(relevant_skills) :
                  skill \in Elements(developer.technical_skills)
    /\ Returned => resume.relevant_skills = relevant_skills

\* the service named a skill the candidate lacks and named two of the
\* candidate's skills in the opposite order; a third skill was left out
C9_Witness ==
    /\ Returned
    /\ list_contains(foreign_skill, response.relevant_skills)
    /\ Len(relevant_skills) >= 2
    /\ Len(relevant_skills) < Len(developer.technical_skills)
    /\ \E a, b \in 1..Len(response.relevant_skills) :
           /\ a < b
           /\ response.relevant_skills[a] = relevant_skills[2].name
           /\ response.relevant_skills[b] = relevant_skills[1].name

\* C10: every element of relevant_education, as returned by the matcher and as
\* stored in the Resume, is one of the Education records of developer.education.
C10_RelevantEducationFromCandidate ==
    /\ BackgroundMatched =>
           \A edu \in Elements(relevant_education) :
               edu \in Elements(developer.education)
    /\ Returned =>
           \A edu \in Elements(resume.relevant_education) :
               edu \in Elements(developer.education)

-----------------------------------------------------------------------------
(* The external calls of one run: calls lists them in the order issued.    *)

\* the indexes of the calls of one kind
CallsOfKind(kind) == {k \in 1..Len(calls) : calls[k].kind = kind}

\* the calls of generate_resume that raised
RaisedMatchCalls ==
    {k \in 1..Len(calls) : calls[k].kind # "markdown" /\ calls[k].outcome = "raised"}

\* C11: when an external call of generate_resume fails the failure leaves
\* generate_resume: the failed call is the last call of the run (no retry, no
\* further call), the run has ended raising, no Resume is returned and the
\* failed project is recorded neither as a match nor as a non-match
C11_FailurePropagates ==
    \A k \in RaisedMatchCalls :
        /\ k = Len(calls)
        /\ pc = "raised"
        /\ resume = None
        /\ markdown_content = None
        /\ Len(relevant_projects) =
               Cardinality({n \in 1..(k - 1) : calls[n].outcome = "match"})

\* a project match fails after an earlier project matched
C11_Witness ==
    /\ pc = "raised"
    /\ Len(calls) >= 3
    /\ calls[Len(calls)].kind = "project"
    /\ calls[Len(calls)].outcome = "raised"
    /\ \E n \in 1..(Len(calls) - 1) : calls[n].outcome = "match"

RECURSIVE positions_from(_, _)
\* every (experience, project) position from experience i on, in loop order
positions_from(work_experiences, i) ==
    IF i > Len(work_experiences) THEN <<>>
    ELSE [j \in 1..Len(work_experiences[i].projects) |-> <<i, j>>]
         \o positions_from(work_experiences, i + 1)

\* every project of every work experience of the candidate
ProjectPositions == positions_from(developer.work_experiences, 1)

\* the position a project call was about
CallPosition(k) == <<calls[k].exp, calls[k].project>>

\* C12: a run of generate_resume that returns has issued exactly one
\* background-match call and exactly one project-match call per project of
\* every work experience, and a run of generate_markdown issues exactly one call
C12_CallsPerRun ==
    /\ pc = "done" =>
           /\ Cardinality(CallsOfKind("background")) = 1
           /\ Cardinality(CallsOfKind("project")) = Len(ProjectPositions)
           /\ \A n \in 1..Len(ProjectPositions) :
                  Cardinality({k \in CallsOfKind("project") :
                                   CallPosition(k) = ProjectPositions[n]}) = 1
    /\ pc \in {"markdown done", "markdown raised"} =>
           Cardinality(CallsOfKind("markdown")) = 1

\* the project calls that answered with a match, in the order issued
MatchedCalls ==
    SelectSeq(calls, LAMBDA c : c.kind = "project" /\ c.outcome = "match")

\* how often an element occurs in a list
Occurrences(x, xs) == Cardinality({k \in 1..Len(xs) : xs[k] = x})

\* C17: the returned relevant_experience holds the work experience of every
\* matching project, once per matching project, in experience order then
\* project order; an experience with no matching project is absent and one
\* with k matching projects occurs k times
C17_RelevantExperiencePerMatchingProject ==
    Returned =>
        /\ resume.relevant_experience =
               [n \in 1..Len(MatchedCalls) |->
                    developer.work_experiences[MatchedCalls[n].exp]]
        /\ \A n \in 1..(Len(MatchedCalls) - 1) :
               \/ MatchedCalls[n].exp < MatchedCalls[n + 1].exp
               \/ /\ MatchedCalls[n].exp = MatchedCalls[n + 1].exp
                  /\ MatchedCalls[n].project < MatchedCalls[n + 1].project
        /\ \A i \in 1..Len(developer.work_experiences) :
               Occurrences(developer.work_experiences[i], resume.relevant_experience) =
                   Cardinality({k \in CallsOfKind("project") :
                                    /\ calls[k].outcome = "match"
                                    /\ developer.work_experiences[calls[k].exp] =
                                           developer.work_experiences[i]})

\* one experience is listed twice for its two matching projects, another
\* experience of the candidate has no matching project and is not listed
C17_Witness ==
    /\ Returned
    /\ Len(resume.relevant_experience) = 2
    /\ resume.relevant_experience[1] = resume.relevant_experience[2]
    /\ \E i \in 1..Len(developer.work_experiences) :
           /\ Len(developer.work_experiences[i].projects) > 0
           /\ Occurrences(developer.work_experiences[i], resume.relevant_experience) = 0

\* C18: in a run the background-match call comes first and is the only one,
\* the project-match calls follow one by one in experience order then project
\* order without a gap, and a failed call is the last call of the run
C18_CallOrder ==
    /\ Len(calls) >= 1 => calls[1].kind = "background"
    /\ \A k \in 2..Len(calls) : calls[k].kind # "background"
    /\ \A k \in CallsOfKind("project") :
           /\ k - 1 <= Len(ProjectPositions)
           /\ CallPosition(k) = ProjectPositions[k - 1]
    /\ \A k \in CallsOfKind("markdown") :
           k = Len(calls) /\ k = Len(ProjectPositions) + 2
    /\ \A k \in 1..Len(calls) : calls[k].outcome = "raised" => k = Len(calls)

\* the project calls have moved from one experience to the first project of
\* the next one
C18_Witness ==
    /\ Len(calls) >= 3
    /\ \E k \in 2..(Len(calls) - 1) :
           /\ calls[k].kind = "project"
           /\ calls[k + 1].kind = "project"
           /\ calls[k].project > 1
           /\ calls[k + 1].exp = calls[k].exp + 1
           /\ calls[k + 1].project = 1

-----------------------------------------------------------------------------
(* Parsing: Developer.from_text and WorkExperience.from_text convert the   *)
(* structured response of the parser service, and cleanup_list splits the  *)
(* text of a form field.                                                   *)

\* the exception datetime.strptime and date() raise
ValueError == [raises |-> "ValueError"]

\* the call returns value
returns(value) == [returned |-> value]

\* the value of a decimal digit
DigitValue ==
    "0" :> 0 @@ "1" :> 1 @@ "2" :> 2 @@ "3" :> 3 @@ "4" :> 4 @@
    "5" :> 5 @@ "6" :> 6 @@ "7" :> 7 @@ "8" :> 8 @@ "9" :> 9

\* s[i], or "" past the end
char(s, i) == IF i >= 1 /\ i <= Len(s) THEN SubSeq(s, i, i) ELSE ""

is_digit(c) == c \in DOMAIN DigitValue

is_nonzero_digit(c) == is_digit(c) /\ c # "0"

\* %m at position p: 1[0-2] | 0[1-9] | [1-9]; <<month, position after>>,
\* or <<0, 0>> when nothing matches
match_month(s, p) ==
    LET a == char(s, p)
        b == char(s, p + 1)
    IN  IF a = "1" /\ b \in {"0", "1", "2"} THEN <<10 + DigitValue[b], p + 2>>
        ELSE IF a = "0" /\ is_nonzero_digit(b) THEN <<DigitValue[b], p + 2>>
        ELSE IF is_nonzero_digit(a) THEN <<DigitValue[a], p + 1>>
        ELSE <<0, 0>>

\* %d at position p: 3[01] | [12]\d | 0[1-9] | [1-9] | space [1-9]
match_day(s, p) ==
    LET a == char(s, p)
        b == char(s, p + 1)
    IN  IF a = "3" /\ b \in {"0", "1"} THEN <<30 + DigitValue[b], p + 2>>
        ELSE IF a \in {"1", "2"} /\ is_digit(b)
        THEN <<10 * DigitValue[a] + DigitValue[b], p + 2>>
        ELSE IF a = "0" /\ is_nonzero_digit(b) THEN <<DigitValue[b], p + 2>>
        ELSE IF is_nonzero_digit(a) THEN <<DigitValue[a], p + 1>>
        ELSE IF a = " " /\ is_nonzero_digit(b) THEN <<DigitValue[b], p + 2>>
        ELSE <<0, 0>>

is_leap(year) == year % 4 = 0 /\ (year % 100 # 0 \/ year % 400 = 0)

days_in_month(year, month) ==
    IF month = 2 THEN (IF is_leap(year) THEN 29 ELSE 28)
    ELSE IF month \in {4, 6, 9, 11} THEN 30 ELSE 31

\* datetime.strptime(s, "%Y-%m-%d").date(): the date, or ValueError
strptime(s) ==
    IF \E i \in 1..4 : ~is_digit(char(s, i)) THEN ValueError
    ELSE IF char(s, 5) # "-" THEN ValueError
    ELSE LET year == 1000 * DigitValue[char(s, 1)] + 100 * DigitValue[char(s, 2)]
                     + 10 * DigitValue[char(s, 3)] + DigitValue[char(s, 4)]
             month == match_month(s, 6)
         IN  IF month[2] = 0 \/ char(s, month[2]) # "-" THEN ValueError
             ELSE LET day == match_day(s, month[2] + 1)
                  IN  IF day[2] = 0 THEN ValueError
                      ELSE IF day[2] # Len(s) + 1 THEN ValueError
                      ELSE IF year < 1 \/ day[1] > days_in_month(year, month[1])
                      THEN ValueError
                      ELSE date(year, month[1], day[1])

\* value or "" for an Optional[str] of the response
or_empty(value) == IF value = None THEN "" ELSE value.str

\* variant: without expiration date the certification expires on date.max
optional_date_or_max(value) ==
    IF value = None THEN date(9999, 12, 31)
    ELSE IF value.str = "" THEN date(9999, 12, 31)
    ELSE strptime(value.str)

\* strptime(value) if value else None, for an Optional[str] of the response
optional_date(value) ==
    IF value = None THEN None
    ELSE IF value.str = "" THEN None
    ELSE strptime(value.str)

\* the list comprehensions of Developer.from_text
education_list(resp) ==
    [k \in 1..Len(resp.education) |->
        LET edu == resp.education[k]
        IN  Education(edu.institution_name, edu.degree, edu.field_of_study,
                      strptime(edu.start_date), strptime(edu.end_date))]

certifications_list(resp) ==
    [k \in 1..Len(resp.certifications) |->
        LET cert == resp.certifications[k]
        IN  Certification(cert.name, cert.issuing_organization,
                          strptime(cert.issue_date),
                          optional_date(cert.expiration_date))]

\* the conversion of Developer.from_text: the Developer, or ValueError when a
\* date of the response does not parse
developer_from_response(resp) ==
    LET education == education_list(resp)
        certifications == certifications_list(resp)
    IN  IF \/ \E k \in 1..Len(education) :
                  \/ education[k].start_date = ValueError
                  \/ education[k].end_date = ValueError
           \/ \E k \in 1..Len(certifications) :
                  \/ certifications[k].issue_date = ValueError
                  \/ certifications[k].expiration_date = ValueError
        THEN ValueError
        ELSE returns(
             Developer(resp.name, or_empty(resp.website_url),
                       [k \in 1..Len(resp.technical_skills) |->
                           Skill(resp.technical_skills[k].name,
                                 resp.technical_skills[k].level)],
                       <<>>, education, certifications,
                       [k \in 1..Len(resp.languages) |->
                           Language(resp.languages[k].name,
                                    resp.languages[k].proficiency)],
                       [k \in 1..Len(resp.achievements) |->
                           Achievement(resp.achievements[k].title,
                                       resp.achievements[k].description)]))

\* one pass of the loop of WorkExperience.from_text
work_experience_from_entry(experience) ==
    WorkExperience(Mission(experience.mission.job_title,
                           experience.mission.company_name,
                           strptime(experience.mission.start_date),
                           strptime(experience.mission.end_date)),
                   [j \in 1..Len(experience.projects) |->
                       Project(experience.projects[j].project_name,
                               experience.projects[j].technologies)])

\* a mission date of the converted entry did not parse
entry_raises(exp) ==
    exp.mission.start_date = ValueError \/ exp.mission.end_date = ValueError

\* variant: an entry whose dates do not parse is left out of the list
work_experiences_skipping_unparsed(resp) ==
    returns(SelectSeq([k \in 1..Len(resp.work_experiences) |->
                  work_experience_from_entry(resp.work_experiences[k])],
              LAMBDA exp : ~entry_raises(exp)))

\* the conversion of WorkExperience.from_text: the list, or ValueError raised
\* by the first date that does not parse
work_experiences_from_response(resp) ==
    LET converted == [k \in 1..Len(resp.work_experiences) |->
                         work_experience_from_entry(resp.work_experiences[k])]
    IN  IF \E k \in 1..Len(converted) : entry_raises(converted[k])
        THEN ValueError
        ELSE returns(converted)

\* str.strip() removes these
Whitespace == {" ", "\t", "\n"}

RECURSIVE lstrip(_)
lstrip(s) ==
    IF Len(s) > 0 /\ char(s, 1) \in Whitespace
    THEN lstrip(SubSeq(s, 2, Len(s))) ELSE s

RECURSIVE rstrip(_)
rstrip(s) ==
    IF Len(s) > 0 /\ char(s, Len(s)) \in Whitespace
    THEN rstrip(SubSeq(s, 1, Len(s) - 1)) ELSE s

strip(s) == rstrip(lstrip(s))

RECURSIVE split_from(_, _, _)
\* text.split(sep) for a one-character sep, reading on from position i of s
split_from(s, sep, i) ==
    IF i > Len(s) THEN <<s>>
    ELSE IF char(s, i) = sep
    THEN <<SubSeq(s, 1, i - 1)>> \o split_from(SubSeq(s, i + 1, Len(s)), sep, 1)
    ELSE split_from(s, sep, i + 1)

split(s, sep) == split_from(s, sep, 1)

\* variant: items that are empty after stripping are dropped
cleanup_list_dropping_empty(text) ==
    IF text = "" THEN <<>>
    ELSE SelectSeq([k \in 1..Len(split(text, ",")) |-> strip(split(text, ",")[k])],
                   LAMBDA item : item # "")

\* [item.strip() for item in text.split(",")] if text else []
cleanup_list(text) ==
    IF text = "" THEN <<>>
    ELSE LET items == split(text, ",")
         IN  [k \in 1..Len(items) |-> strip(items[k])]

-----------------------------------------------------------------------------
(* The responses and texts the parsing functions are applied to.           *)

\* the longest form text drawn
MaxText == 4

DateStrings ==
    {"2015-09-01", "2019-9-1", "2021-01- 5", "2024-02-29", "2021-02-30",
     "2021-13-01", "2021/01/15", "2021-01-15 ", "Present", ""}

\* LevelsModel and LanguageLevelsModel objects
LevelsModel(level) == [level |-> level]

SkillModelPool ==
    {[name |-> "Python", level |-> LevelsModel("Expert")],
     [name |-> "React.js", level |-> LevelsModel("Advanced")],
     [name |-> "Docker", level |-> LevelsModel("Basic")]}

EducationModel(institution_name, degree, field_of_study, start_date, end_date) == [institution_name |-> institution_name, degree |-> degree, field_of_study |-> field_of_study, start_date |-> start_date, end_date |-> end_date]

EducationModelPool ==
    {EducationModel("Tech University", "Bachelor's", "Computer Science",
                    "2015-09-01", "2019-06-01"),
     EducationModel("State College", "Master's", "Data Science",
                    "2019-9-1", "2021-06-30"),
     EducationModel("Night School", "Diploma", "Databases",
                    "2021-02-30", "2022-01-01"),
     EducationModel("Bootcamp", "Certificate", "Web Development",
                    "2022-01-10", "Present")}

CertificationModel(name, issuing_organization, issue_date, expiration_date) == [name |-> name, issuing_organization |-> issuing_organization, issue_date |-> issue_date, expiration_date |-> expiration_date]

CertificationModelPool ==
    {CertificationModel("AWS Certified", "Amazon Web Services",
                        "2021-01-01", PyStr("2024-01-01")),
     CertificationModel("Scrum Master", "Scrum Alliance", "2020-05-01", None),
     CertificationModel("Azure Fundamentals", "Microsoft",
                        "2022-03-15", PyStr("")),
     CertificationModel("Kubernetes Administrator", "CNCF",
                        "2021/01/15", None),
     CertificationModel("Security Basics", "Training Partner",
                        "2023-04-01", PyStr("2026-4-1 ")) }

LanguageModelPool ==
    {[name |-> "English", proficiency |-> LevelsModel("Native")],
     [name |-> "French", proficiency |-> LevelsModel("Intermediate")],
     [name |-> "Spanish", proficiency |-> LevelsModel("Basic")]}

\* the response for a document that lists nothing
empty_response ==
    [name |-> "John Doe", website_url |-> None, technical_skills |-> <<>>,
     education |-> <<>>, certifications |-> <<>>, languages |-> <<>>,
     achievements |-> <<>>]

DeveloperResponses ==
    {[empty_response EXCEPT !.website_url = u] :
        u \in {None, PyStr(""), PyStr("johndoe.dev")}}
    \cup {[empty_response EXCEPT !.technical_skills = t] :
        t \in ListsUpTo(SkillModelPool, MaxList)}
    \cup {[empty_response EXCEPT !.education = e] :
        e \in ListsUpTo(EducationModelPool, MaxList)}
    \cup {[empty_response EXCEPT !.certifications = c] :
        c \in ListsUpTo(CertificationModelPool, MaxList)}
    \cup {[empty_response EXCEPT !.languages = l] :
        l \in ListsUpTo(LanguageModelPool, MaxList)}
    \cup {[empty_response EXCEPT !.achievements = a] :
        a \in ListsUpTo(AchievementPool, MaxList)}

MissionModel(job_title, company_name, start_date, end_date) == [job_title |-> job_title, company_name |-> company_name, start_date |-> start_date, end_date |-> end_date]

WorkExperienceModelPool ==
    {[mission |-> MissionModel("Senior Developer", "Tech Corp",
                               "2020-01-01", "2023-01-01"),
      projects |-> <<test_project1, test_project2>>],
     [mission |-> MissionModel("Developer", "StartUp Inc",
                               "2019-6-1", "2019-12-01"),
      projects |-> <<test_project3>>],
     [mission |-> MissionModel("Consultant", "Freelance",
                               "2023-11-01", "Present"),
      projects |-> <<>>],
     [mission |-> MissionModel("Intern", "Research Lab",
                               "2018-02-30", "2018-08-31"),
      projects |-> <<test_project3, test_project1>>],
     [mission |-> MissionModel("Engineer", "Agency",
                               "2021-01- 5", "2024-02-29"),
      projects |-> <<test_project2>>]}

WorkExperienceResponses ==
    {[work_experiences |-> w] : w \in ListsUpTo(WorkExperienceModelPool, MaxList)}

TextAlphabet == {"a", "b", ",", " "}

RECURSIVE TextsUpTo(_)
TextsUpTo(n) ==
    IF n = 0 THEN {""}
    ELSE LET shorter == TextsUpTo(n - 1)
         IN  shorter \cup {t \o c : t \in shorter, c \in TextAlphabet}

\* hobbies and conditions as the profile form shows them: stripped, no comma
ItemPool == {"Reading", "Rock climbing", "a"}

ItemLists == ListsUpTo(ItemPool, MaxList)

Texts == TextsUpTo(MaxText) \cup {join(",", items) : items \in ItemLists}

-----------------------------------------------------------------------------
(* The parsing functions applied to one response or text.                  *)

\* the variables of generate_resume and generate_markdown
run_locals == <<generate_resume_locals, calls, markdown_content>>

ParseInit ==
    /\ developer = None
    /\ job_offer = None
    /\ pc = "parse"
    /\ FreshLocals
    /\ OtherIdle

\* Developer.from_text on a document the parser answered with resp
DeveloperFromText(resp) ==
    /\ pc = "parse"
    /\ pc' = "Developer.from_text"
    /\ parser_response' = resp
    /\ parsed' = developer_from_response(resp)
    /\ UNCHANGED <<run_locals, page_vars>>

\* WorkExperience.from_text on a document the parser answered with resp
WorkExperienceFromText(resp) ==
    /\ pc = "parse"
    /\ pc' = "WorkExperience.from_text"
    /\ parser_response' = resp
    /\ parsed' = work_experiences_from_response(resp)
    /\ UNCHANGED <<run_locals, page_vars>>

\* cleanup_list on the text of a form field
CleanupList(text) ==
    /\ pc = "parse"
    /\ pc' = "cleanup_list"
    /\ parser_response' = PyStr(text)
    /\ parsed' = returns(cleanup_list(text))
    /\ UNCHANGED <<run_locals, page_vars>>

ParseNext ==
    \/ \E resp \in DeveloperResponses : DeveloperFromText(resp)
    \/ \E resp \in WorkExperienceResponses : WorkExperienceFromText(resp)
    \/ \E text \in Texts : CleanupList(text)

ParseSpec == ParseInit /\ [][ParseNext]_vars

-----------------------------------------------------------------------------
(* Properties of the parsing functions.                                    *)

\* Developer.from_text has returned a Developer
DeveloperParsed == pc = "Developer.from_text" /\ parsed # ValueError

\* the certification of the response names no expiration date
NoExpirationDate(cert) ==
    cert.expiration_date = None \/ cert.expiration_date = PyStr("")

\* C14: the Developer returned by Developer.from_text has, for technical
\* skills, education, certifications, languages and achievements, a list as
\* long as the response's with the k-th element made from the response's k-th
\* element; its work_experiences is empty, its website_url is "" when the
\* response has none, and a certification without expiration date has
\* expiration_date None
C14_FromTextMapsLists ==
    DeveloperParsed =>
        LET dev == parsed.returned
            resp == parser_response
        IN  /\ Len(dev.technical_skills) = Len(resp.technical_skills)
            /\ \A k \in 1..Len(resp.technical_skills) :
                   /\ dev.technical_skills[k].name = resp.technical_skills[k].name
                   /\ dev.technical_skills[k].level = resp.technical_skills[k].level
            /\ Len(dev.education) = Len(resp.education)
            /\ \A k \in 1..Len(resp.education) :
                   /\ dev.education[k].institution_name = resp.education[k].institution_name
                   /\ dev.education[k].degree = resp.education[k].degree
                   /\ dev.education[k].field_of_study = resp.education[k].field_of_study
            /\ Len(dev.certifications) = Len(resp.certifications)
            /\ \A k \in 1..Len(resp.certifications) :
                   /\ dev.certifications[k].name = resp.certifications[k].name
                   /\ dev.certifications[k].issuing_organization =
                          resp.certifications[k].issuing_organization
                   /\ NoExpirationDate(resp.certifications[k]) =>
                          dev.certifications[k].expiration_date = None
            /\ Len(dev.languages) = Len(resp.languages)
            /\ \A k \in 1..Len(resp.languages) :
                   /\ dev.languages[k].name = resp.languages[k].name
                   /\ dev.languages[k].proficiency = resp.languages[k].proficiency
            /\ Len(dev.achievements) = Len(resp.achievements)
            /\ \A k \in 1..Len(resp.achievements) :
                   /\ dev.achievements[k].title = resp.achievements[k].title
                   /\ dev.achievements[k].description = resp.achievements[k].description
            /\ dev.work_experiences = <<>>
            /\ resp.website_url = None => dev.website_url = ""

\* a response without website and with two different certifications, the
\* first without expiration date and the second with one, has been converted
C14_Witness ==
    /\ DeveloperParsed
    /\ parser_response.website_url = None
    /\ parsed.returned.website_url = ""
    /\ Len(parsed.returned.certifications) = 2
    /\ parser_response.certifications[1].expiration_date = None
    /\ parsed.returned.certifications[1].expiration_date = None
    /\ parsed.returned.certifications[2].expiration_date = date(2024, 1, 1)

\* WorkExperience.from_text has run on a response
WorkExperiencesParsed == pc = "WorkExperience.from_text"

\* the two mission dates of an entry of the response
MissionDates(experience) ==
    {experience.mission.start_date, experience.mission.end_date}

\* the text has the shape YYYY-MM-DD: four digits, two digits, two digits
IsYYYYMMDD(s) ==
    /\ Len(s) = 10
    /\ \A i \in {1, 2, 3, 4, 6, 7, 9, 10} : is_digit(char(s, i))
    /\ char(s, 5) = "-"
    /\ char(s, 8) = "-"

\* the number a text of one or two digits writes, or 0
OneOrTwoDigits(t) ==
    IF Len(t) = 1 /\ is_digit(t) THEN DigitValue[t]
    ELSE IF Len(t) = 2 /\ is_digit(char(t, 1)) /\ is_digit(char(t, 2))
    THEN 10 * DigitValue[char(t, 1)] + DigitValue[char(t, 2)]
    ELSE 0

\* the day a text writes: one or two digits, or a space and one digit
DayWritten(t) ==
    IF Len(t) = 2 /\ char(t, 1) = " " /\ is_digit(char(t, 2))
    THEN DigitValue[char(t, 2)]
    ELSE OneOrTwoDigits(t)

\* the year a text of four digits writes, or 0
YearWritten(t) ==
    IF Len(t) = 4 /\ \A i \in 1..4 : is_digit(char(t, i))
    THEN 1000 * DigitValue[char(t, 1)] + 100 * DigitValue[char(t, 2)]
         + 10 * DigitValue[char(t, 3)] + DigitValue[char(t, 4)]
    ELSE 0

\* the text writes a calendar date as year-month-day, the year with four
\* digits, month and day with one or two
WritesDate(s) ==
    LET parts == split(s, "-")
    IN  /\ Len(parts) = 3
        /\ YearWritten(parts[1]) >= 1
        /\ OneOrTwoDigits(parts[2]) \in 1..12
        /\ DayWritten(parts[3]) >= 1
        /\ DayWritten(parts[3]) <=
               days_in_month(YearWritten(parts[1]), OneOrTwoDigits(parts[2]))

\* the date such a text writes
DateWritten(s) ==
    LET parts == split(s, "-")
    IN  date(YearWritten(parts[1]), OneOrTwoDigits(parts[2]), DayWritten(parts[3]))

\* the returned list follows the response entry by entry
FollowsResponse(list, resp) ==
    /\ Len(list) = Len(resp.work_experiences)
    /\ \A k \in 1..Len(list) :
           LET experience == resp.work_experiences[k]
           IN  /\ list[k].mission.job_title = experience.mission.job_title
               /\ list[k].mission.company_name = experience.mission.company_name
               /\ list[k].mission.start_date = DateWritten(experience.mission.start_date)
               /\ list[k].mission.end_date = DateWritten(experience.mission.end_date)
               /\ Len(list[k].projects) = Len(experience.projects)
               /\ \A j \in 1..Len(experience.projects) :
                      /\ list[k].projects[j].project_name =
                             experience.projects[j].project_name
                      /\ list[k].projects[j].technologies =
                             experience.projects[j].technologies

\* C15 as stated: WorkExperience.from_text returns one WorkExperience per
\* entry of the response, in order, with the projects in order and the mission
\* dates read from the strings, and raises, returning nothing, as soon as one
\* entry has a date that is not of the form YYYY-MM-DD
C15_RaisesUnlessYYYYMMDD ==
    WorkExperiencesParsed =>
        /\ parsed # ValueError => FollowsResponse(parsed.returned, parser_response)
        /\ (\E k \in 1..Len(parser_response.work_experiences) :
                \E s \in MissionDates(parser_response.work_experiences[k]) :
                    ~IsYYYYMMDD(s))
               => parsed = ValueError

\* C15 amended: WorkExperience.from_text returns the list that follows the
\* response entry by entry when every mission date writes a calendar date as
\* year-month-day (month and day of one or two digits), and otherwise raises
\* and returns no list, not even the entries before the failing one
C15_RaisesUnlessDateWritten ==
    WorkExperiencesParsed =>
        IF \A k \in 1..Len(parser_response.work_experiences) :
               \A s \in MissionDates(parser_response.work_experiences[k]) :
                   WritesDate(s)
        THEN /\ parsed # ValueError
             /\ FollowsResponse(parsed.returned, parser_response)
        ELSE parsed = ValueError

\* the first entry has dates that parse, one of them with a one-digit month,
\* the second entry has a date that does not parse: the call raised
C15_Witness ==
    /\ WorkExperiencesParsed
    /\ Len(parser_response.work_experiences) = 2
    /\ parser_response.work_experiences[1].mission.start_date = "2019-6-1"
    /\ \A s \in MissionDates(parser_response.work_experiences[1]) : WritesDate(s)
    /\ \E s \in MissionDates(parser_response.work_experiences[2]) : ~WritesDate(s)
    /\ parsed = ValueError

\* cleanup_list has run on a text
CleanedUp == pc = "cleanup_list"

\* the positions of the commas of a text
Commas(text) == {i \in 1..Len(text) : char(text, i) = ","}

\* the n-th piece of the text between commas
Piece(text, n) ==
    LET before == {i \in Commas(text) :
                       Cardinality({j \in Commas(text) : j <= i}) = n - 1}
        after == {i \in Commas(text) :
                      Cardinality({j \in Commas(text) : j <= i}) = n}
        first == IF before = {} THEN 1 ELSE (CHOOSE i \in before : TRUE) + 1
        last == IF after = {} THEN Len(text) ELSE (CHOOSE i \in after : TRUE) - 1
    IN  SubSeq(text, first, last)

\* item is piece without the whitespace at its two ends
IsStripped(item, piece) ==
    \E a \in 1..(Len(piece) + 1) : \E b \in 0..Len(piece) :
        /\ item = SubSeq(piece, a, b)
        /\ \A i \in 1..(a - 1) : char(piece, i) \in Whitespace
        /\ \A i \in (b + 1)..Len(piece) : char(piece, i) \in Whitespace
        /\ Len(item) > 0 =>
               /\ char(item, 1) \notin Whitespace
               /\ char(item, Len(item)) \notin Whitespace

\* C16: cleanup_list returns the empty list for the empty text; for any other
\* text it returns one item per piece between commas, in order, each piece
\* without its surrounding whitespace; and it returns the original list for
\* the comma-joined text of a list of non-empty, comma-free, stripped strings
C16_CleanupList ==
    CleanedUp =>
        LET text == parser_response.str
            items == parsed.returned
        IN  /\ text = "" => items = <<>>
            /\ text # "" =>
                   /\ Len(items) = Cardinality(Commas(text)) + 1
                   /\ \A n \in 1..Len(items) : IsStripped(items[n], Piece(text, n))
            /\ \A list \in ItemLists : text = join(",", list) => items = list

\* a list of two items, one of them with a space inside, came back from its
\* comma-joined text
C16_Witness ==
    /\ CleanedUp
    /\ parser_response.str = "Rock climbing,Reading"
    /\ parsed.returned = <<"Rock climbing", "Reading">>

-----------------------------------------------------------------------------
(* The Resume page: display_resume_generation runs on st.session_state,    *)
(* which the other pages fill with the developer and the job offer.        *)

\* st.session_state[key] = value
store(state, key, value) ==
    [k \in DOMAIN state \cup {key} |-> IF k = key THEN value ELSE state[k]]

\* create_dummy_developer()
dummy_developer ==
    Developer("John Doe", "johndoe.dev",
              <<Skill("Python", "Expert"), Skill("React", "Advanced"),
                Skill("AWS", "Intermediate")>>,
              <<WorkExperience(
                    Mission("Senior Software Engineer", "Tech Corp",
                            date(2020, 1, 1), date(2023, 12, 31)),
                    <<Project("E-commerce Platform Redesign",
                              <<"React", "TypeScript", "Node.js">>),
                      Project("Cloud Migration Project",
                              <<"AWS", "Docker", "Python">>)>>)>>,
              <<Education("Tech University", "Bachelor's", "Computer Science",
                          date(2015, 9, 1), date(2019, 6, 1))>>,
              <<Certification("AWS Certified Developer", "Amazon Web Services",
                              date(2022, 1, 1), date(2025, 1, 1))>>,
              <<Language("English", "Native"), Language("French", "Intermediate")>>,
              <<Achievement("Best Team Lead",
                            "Led team to successful delivery of major project")>>)

\* create_dummy_job_offer()
dummy_job_offer ==
    JobOffer("Senior Full Stack Developer", "Innovation Inc",
             JobRequirements(<<"Python", "React", "AWS">>,
                             <<"Leadership", "Communication">>, "Bachelor's",
                             <<"AWS Certified Developer">>, <<"English">>))

\* the developer and the job offer the page works with: the ones in session
\* state, or the dummy ones
shown_developer(state) ==
    IF "developer" \in DOMAIN state THEN state["developer"] ELSE dummy_developer

shown_job_offer(state) ==
    IF "job_offer" \in DOMAIN state THEN state["job_offer"] ELSE dummy_job_offer

\* what "Current Role" raises: developer.work_experiences[-1] of an empty list
\* is an IndexError, .job_title of a mission that is a dict an AttributeError
current_role_raises(dev) ==
    IF Len(dev.work_experiences) = 0 THEN "IndexError"
    ELSE IF ~has_attribute(dev.work_experiences[Len(dev.work_experiences)].mission,
                           "job_title")
         THEN "AttributeError"
         ELSE "no"

\* the page gets past "Current Role" to the button and the tabs
page_renders(state) == current_role_raises(shown_developer(state)) = "no"

\* a developer the main page stored from a document without work experience
uploaded_developer == [empty_developer EXCEPT !.name = "Jane Roe"]

\* a developer the main page stored from a document with one mission with one
\* project, and a certification that does not expire
uploaded_developer_with_mission ==
    [empty_developer EXCEPT
        !.name = "Jane Roe",
        !.technical_skills = <<Skill("Python", "Expert")>>,
        !.work_experiences = <<test_work_experience2>>,
        !.certifications =
            <<Certification("AWS Certified Developer", "Training Partner",
                            date(2020, 5, 1), None)>>]

StoredDevelopers == {uploaded_developer, uploaded_developer_with_mission}

\* a job offer stored by the job offer page: it asks for no certification
StoredJobOffers ==
    {JobOffer("Backend Developer", "Data Works",
              JobRequirements(<<"Python", "SQL">>, <<"Communication">>,
                              "Bachelor's", <<>>, <<"English">>))}

\* the answers of the background matcher drawn on the page: nothing is
\* relevant, or every skill and every education is; none while no run is on
PageBackgroundResponses(dev) ==
    IF dev = None THEN {}
    ELSE {[relevant_skills |-> <<>>, relevant_education |-> <<>>],
          [relevant_skills |->
               [k \in 1..Len(dev.technical_skills) |-> dev.technical_skills[k].name],
           relevant_education |->
               [k \in 1..Len(dev.education) |-> education_phrase(dev.education[k])]]}

\* what the user can leave in the text area of the Edit tab
EditedTexts == MarkdownContents \cup {"# Jane Roe", ""}

\* the script run ends: its locals are gone
run_ends ==
    /\ pc' = "idle"
    /\ developer' = None
    /\ job_offer' = None
    /\ response' = None
    /\ relevant_skills' = <<>>
    /\ relevant_education' = <<>>
    /\ relevant_projects' = <<>>
    /\ relevant_work_experiences' = <<>>
    /\ exp_i' = 1
    /\ proj_j' = 1
    /\ years_exp' = 0
    /\ summary_parts' = <<>>
    /\ resume' = None
    /\ calls' = <<>>
    /\ markdown_content' = None

PageInit ==
    /\ developer = None
    /\ job_offer = None
    /\ pc = "idle"
    /\ FreshLocals
    /\ OtherIdle

\* variant: storing an input drops the resume generated from the old inputs
store_input_dropping_resume(state, key, value) ==
    [k \in (DOMAIN state \cup {key}) \ {"generated_resume", "resume_markdown"} |->
        IF k = key THEN value ELSE state[k]]

\* another page stores the developer or the job offer
store_input(state, key, value) == store(state, key, value)

\* variant: Submit builds a Mission object from the mission's widgets
submitted_mission_as_object(mission) ==
    Mission(mission.job_title, mission.company_name,
            mission.start_date, mission.end_date)

\* the mission of a WorkExperience built by the profile page: a dict of the
\* mission's widgets
submitted_mission(mission) ==
    Dict(Mission(mission.job_title, mission.company_name,
                 mission.start_date, mission.end_date))

\* a Project built by the profile page: the description is a dict, the
\* technologies are the cleaned-up text
submitted_project(project) ==
    [project_name |-> project.project_name,
     description |-> Dict([situation |-> project.situation, task |-> "",
                           action |-> "", result |-> ""]),
     technologies |-> cleanup_list(project.technologies)]

\* the Developer built by Submit from the widgets of the profile page
submitted_developer(form) ==
    [empty_developer EXCEPT
        !.name = form.name,
        !.technical_skills = form.skills,
        !.work_experiences =
            [i \in 1..Len(form.missions) |->
                WorkExperience(
                    submitted_mission(form.missions[i]),
                    [j \in 1..Len(form.missions[i].projects) |->
                        submitted_project(form.missions[i].projects[j])])]]

\* the widgets of a mission of the profile page
MissionForm(job_title, company_name, start_date, end_date, projects) ==
    [job_title |-> job_title, company_name |-> company_name,
     start_date |-> start_date, end_date |-> end_date, projects |-> projects]

\* what the user fills in on the profile page: no mission, one mission with
\* one project, two missions without projects
ProfileForms ==
    {[name |-> "Sam Poe", skills |-> <<>>, missions |-> <<>>],
     [name |-> "Sam Poe", skills |-> <<Skill("Python", "Expert")>>,
      missions |->
          <<MissionForm("Data Engineer", "Data Works",
                        date(2021, 1, 1), date(2023, 1, 1),
                        <<[project_name |-> "Pipeline",
                           situation |-> "Nightly loads were late",
                           technologies |-> "Python, SQL"]>>)>>],
     [name |-> "Sam Poe", skills |-> <<>>,
      missions |->
          <<MissionForm("Developer", "Web Shop",
                        date(2019, 1, 1), date(2020, 12, 1), <<>>),
            MissionForm("Consultant", "Freelance",
                        date(2023, 11, 1), date(2024, 2, 1), <<>>)>>]}

\* Submit is pressed on the profile page of a session without a developer
\* (every widget starts from its empty default): the Developer built from the
\* widgets is stored
SubmitProfile(form) ==
    /\ pc = "idle"
    /\ "developer" \notin DOMAIN session
    /\ session' = store_input(session, "developer", submitted_developer(form))
    /\ UNCHANGED <<pc, run_locals, parse_vars, page>>

\* the main page stores a developer
StoreDeveloper(dev) ==
    /\ pc = "idle"
    /\ session' = store_input(session, "developer", dev)
    /\ UNCHANGED <<pc, run_locals, parse_vars, page>>

\* the job offer page stores a job offer
StoreJobOffer(job) ==
    /\ pc = "idle"
    /\ session' = store_input(session, "job_offer", job)
    /\ UNCHANGED <<pc, run_locals, parse_vars, page>>

\* the page runs with a developer without work experience, or with a last
\* mission that is a dict: "Current Role" raises before the button and the tabs
PageRaises ==
    /\ pc = "idle"
    /\ ~page_renders(session)
    /\ page' = current_role_raises(shown_developer(session))
    /\ UNCHANGED <<pc, run_locals, parse_vars, session>>

\* Generate Resume is pressed: generate_resume starts with the shown developer
\* and job offer and stops at its first external call
PressGenerate ==
    /\ pc = "idle"
    /\ page_renders(session)
    /\ pc' = "background"
    /\ developer' = shown_developer(session)
    /\ job_offer' = shown_job_offer(session)
    /\ page' = "generating"
    /\ UNCHANGED <<response, relevant_skills, relevant_education,
                   relevant_projects, relevant_work_experiences, exp_i, proj_j,
                   years_exp, summary_parts, resume, calls, markdown_content>>
    /\ UNCHANGED <<parse_vars, session>>

\* a matcher call raises: the exception leaves generate_resume and the script
GenerateResumeRaises ==
    /\ pc \in {"background", "project"}
    /\ run_ends
    /\ page' = "generate_resume raised"
    /\ UNCHANGED <<parse_vars, session>>

\* generate_markdown raises, building resume_data or in its call: the
\* exception leaves the script before the two writes
GenerateMarkdownRaises ==
    /\ pc = "done"
    /\ run_ends
    /\ page' = "generate_markdown raised"
    /\ UNCHANGED <<parse_vars, session>>

\* variant: the developer and the job offer of the run are saved with the resume
save_generated_with_inputs(state, generated, content) ==
    store(store(store(store(state, "developer", generated.developer),
                      "job_offer", generated.job_offer),
                "generated_resume", generated),
          "resume_markdown", content)

\* variant: only the markdown is saved
save_markdown_only(state, generated, content) ==
    store(state, "resume_markdown", content)

\* st.session_state['generated_resume'] = resume, then
\* st.session_state['resume_markdown'] = markdown_content
save_generated(state, generated, content) ==
    store(store(state, "generated_resume", generated), "resume_markdown", content)

\* generate_markdown returns content: both keys are written, the run ends
ResumeGenerated(content) ==
    /\ pc = "done"
    /\ ~resume_data_raises(resume)
    /\ session' = save_generated(session, resume, content)
    /\ run_ends
    /\ page' = "generated"
    /\ UNCHANGED parse_vars

\* the text of the Edit tab differs from the stored markdown
EditMarkdown(edited_markdown) ==
    /\ pc = "idle"
    /\ page_renders(session)
    /\ "resume_markdown" \in DOMAIN session
    /\ edited_markdown # session["resume_markdown"]
    /\ session' = store(session, "resume_markdown", edited_markdown)
    /\ page' = "edited"
    /\ UNCHANGED <<pc, run_locals, parse_vars>>

PageNext ==
    \/ \E dev \in StoredDevelopers : StoreDeveloper(dev)
    \/ \E form \in ProfileForms : SubmitProfile(form)
    \/ \E job \in StoredJobOffers : StoreJobOffer(job)
    \/ PageRaises
    \/ PressGenerate
    \/ \E resp \in PageBackgroundResponses(developer) : BackgroundMatch(resp)
    \/ \E is_match \in BOOLEAN : ProjectMatch(is_match, "technologies overlap")
    \/ GenerateResumeRaises
    \/ GenerateMarkdownRaises
    \/ \E content \in MarkdownContents : ResumeGenerated(content)
    \/ \E edited_markdown \in EditedTexts : EditMarkdown(edited_markdown)

PageSpec == PageInit /\ [][PageNext]_vars

-----------------------------------------------------------------------------
(* Properties of the Resume page.                                          *)

\* what session state holds under a key: its value, or None when absent
Key(state, key) == IF key \in DOMAIN state THEN [value |-> state[key]] ELSE None

\* 'resume_markdown' is present only if 'generated_resume' is
MarkdownOnlyWithResume ==
    "resume_markdown" \in DOMAIN session => "generated_resume" \in DOMAIN session

\* a step that ends a Generate Resume run
RunEnds == pc \in {"background", "project", "done"} /\ pc' = "idle"

\* a step that writes the keys of the generated resume as the handler does:
\* generate_resume has returned the Resume now stored, generate_markdown has
\* built its data and returned the content now stored
WritesAfterBoth ==
    /\ pc = "done"
    /\ resume # None
    /\ ~resume_data_raises(resume)
    /\ Key(session', "generated_resume") = [value |-> resume]
    /\ \E content \in MarkdownContents :
           Key(session', "resume_markdown") = [value |-> content]

\* C19: on the Resume page 'resume_markdown' is present only if
\* 'generated_resume' is; a step of a Generate Resume run changes either key
\* only by writing both, after generate_resume and generate_markdown have both
\* succeeded, and a run that fails in either leaves both keys as they were
C19_ResumeKeysWrittenTogether ==
    /\ [](MarkdownOnlyWithResume)
    /\ [][/\ (/\ pc # "idle"
              /\ \/ Key(session', "generated_resume") # Key(session, "generated_resume")
                 \/ Key(session', "resume_markdown") # Key(session, "resume_markdown"))
             => WritesAfterBoth
          /\ page' = "generated" /\ RunEnds => WritesAfterBoth
          /\ page' # "generated" /\ RunEnds =>
                 /\ Key(session', "generated_resume") = Key(session, "generated_resume")
                 /\ Key(session', "resume_markdown") = Key(session, "resume_markdown")]_vars

\* after a resume was generated and stored, a later run failed in
\* generate_markdown and the two keys are still there
C19_Witness ==
    /\ page = "generate_markdown raised"
    /\ "generated_resume" \in DOMAIN session
    /\ "resume_markdown" \in DOMAIN session
    /\ "developer" \in DOMAIN session
    /\ session["generated_resume"].developer # session["developer"]

\* every key of the two session states except the given ones holds the same
SameExcept(keys) ==
    \A k \in (DOMAIN session \cup DOMAIN session') \ keys :
        Key(session', k) = Key(session, k)

\* C20: 'generated_resume' changes only in the step that ends a successful
\* Generate Resume run; a step that replaces the developer or the job offer in
\* session state changes nothing else, and outside a run 'resume_markdown'
\* changes only by an edit in the Edit tab, which changes nothing else
C20_GeneratedResumeChangesOnlyOnGenerate ==
    [][/\ Key(session', "generated_resume") # Key(session, "generated_resume")
              => pc = "done" /\ pc' = "idle" /\ page' = "generated"
       /\ (\/ Key(session', "developer") # Key(session, "developer")
           \/ Key(session', "job_offer") # Key(session, "job_offer"))
              => SameExcept({"developer", "job_offer"})
       /\ (/\ pc = "idle"
           /\ Key(session', "resume_markdown") # Key(session, "resume_markdown"))
              => /\ page' = "edited"
                 /\ SameExcept({"resume_markdown"})
                 /\ Key(session', "resume_markdown") # None]_vars

\* the stored resume was generated for another job offer than the one now in
\* session state and its markdown was edited since: the Statistics tab shows
\* one relevant certification against zero required ones
C20_Witness ==
    /\ "generated_resume" \in DOMAIN session
    /\ "job_offer" \in DOMAIN session
    /\ session["generated_resume"].job_offer # session["job_offer"]
    /\ session["resume_markdown"] = "# Jane Roe"
    /\ Len(session["generated_resume"].relevant_certifications) = 1
    /\ Len(session["job_offer"].requirements.certifications) = 0

\* a step of the Resume page: of a Generate Resume run, of a run that raised,
\* or of the Edit tab
ResumePageStep ==
    \/ pc' # pc
    \/ page' # page
    \/ Key(session', "generated_resume") # Key(session, "generated_resume")
    \/ Key(session', "resume_markdown") # Key(session, "resume_markdown")

\* neither dummy is in session state
NoDummyStored ==
    /\ Key(session, "developer") # [value |-> dummy_developer]
    /\ Key(session, "job_offer") # [value |-> dummy_job_offer]

\* C21: the Resume page never writes 'developer' or 'job_offer': no step of
\* the page changes either key, so a key that is absent stays absent whatever
\* the page does, and the dummy developer and the dummy job offer it works
\* with are never found in session state
C21_DummiesNeverStored ==
    /\ [](NoDummyStored)
    /\ [][ResumePageStep =>
              /\ Key(session', "developer") = Key(session, "developer")
              /\ Key(session', "job_offer") = Key(session, "job_offer")]_vars

\* a resume was generated from the dummy developer and the dummy job offer
\* and stored, then edited, and neither input key is in session state
C21_Witness ==
    /\ "generated_resume" \in DOMAIN session
    /\ session["generated_resume"].developer = dummy_developer
    /\ session["generated_resume"].job_offer = dummy_job_offer
    /\ page = "edited"
    /\ "developer" \notin DOMAIN session
    /\ "job_offer" \notin DOMAIN session

\* the developers Submit can store
SubmittedDevelopers == {submitted_developer(form) : form \in ProfileForms}

\* every mission of dev and every project description is a dict
MappingMissions(dev) ==
    \A k \in 1..Len(dev.work_experiences) :
        /\ has_attribute(dev.work_experiences[k].mission, "dict")
        /\ \A j \in 1..Len(dev.work_experiences[k].projects) :
               has_attribute(dev.work_experiences[k].projects[j].description,
                             "dict")

\* session state holds a developer of the profile page with a mission
SubmittedStored ==
    /\ "developer" \in DOMAIN session
    /\ session["developer"] \in SubmittedDevelopers
    /\ Len(session["developer"].work_experiences) >= 1

\* the missions and project descriptions of a stored developer of the profile
\* page are dicts
SubmittedAsMappings ==
    SubmittedStored => MappingMissions(session["developer"])

\* C25 as stated: with a developer of the profile page that has a mission in
\* session state, a step of the Resume page is the press of Generate Resume or
\* the failure of generate_resume before any external call, and it leaves
\* 'generated_resume' and 'resume_markdown' unchanged
C25_FailsInsideGenerateResume ==
    [][SubmittedStored /\ ResumePageStep =>
          /\ \/ pc = "idle" /\ pc' = "background"
             \/ /\ pc = "background" /\ calls = <<>>
                /\ pc' = "idle" /\ page' = "generate_resume raised"
          /\ Key(session', "generated_resume") = Key(session, "generated_resume")
          /\ Key(session', "resume_markdown") = Key(session, "resume_markdown")]_vars

\* C25: a developer stored by Submit with a mission holds every mission and
\* every project description as a dict; with it in session state every step of
\* the Resume page is a run that raises AttributeError at "Current Role",
\* before the Generate Resume button: no run of generate_resume starts, no
\* external call is issued and session state is unchanged
C25_RaisesBeforeTheButton ==
    /\ [](SubmittedAsMappings)
    /\ [][SubmittedStored /\ ResumePageStep =>
              /\ pc = "idle" /\ pc' = "idle"
              /\ page' = "AttributeError"
              /\ calls' = <<>>
              /\ session' = session]_vars

\* the page raised on a developer of the profile page with a project, stored
\* after a resume was generated from the dummy inputs
C25_Witness ==
    /\ SubmittedStored
    /\ Len(session["developer"].work_experiences[1].projects) = 1
    /\ page = "AttributeError"
    /\ pc = "idle"
    /\ "generated_resume" \in DOMAIN session
    /\ "resume_markdown" \in DOMAIN session

-----------------------------------------------------------------------------
(* The main page: an uploaded PDF is parsed to text, Developer.from_text   *)
(* and WorkExperience.from_text are called on the text, and the developer  *)
(* is stored in st.session_state.  calls lists the three steps of a run.   *)

\* the responses the two parsers give on the main page
MainDeveloperResponses ==
    {resp \in DeveloperResponses :
         /\ Len(resp.technical_skills) = 0
         /\ Len(resp.languages) = 0
         /\ Len(resp.achievements) = 0
         /\ Len(resp.education) = 0
         /\ Len(resp.certifications) <= 1}

MainWorkExperienceResponses ==
    {resp \in WorkExperienceResponses : Len(resp.work_experiences) <= 1}

\* one step of a run of the main page, with how it ended
main_call(kind, outcome) == [kind |-> kind, outcome |-> outcome]

\* the run ends without storing anything: the exception leaves the script
main_run_raises(call, error) ==
    /\ pc' = "idle"
    /\ developer' = None
    /\ calls' = Append(calls, call)
    /\ page' = error
    /\ UNCHANGED <<job_offer, response, relevant_skills, relevant_education,
                   relevant_projects, relevant_work_experiences, exp_i, proj_j,
                   years_exp, summary_parts, resume, markdown_content,
                   parse_vars, session>>

\* what a step that goes on to the next call leaves alone
main_run_goes_on ==
    UNCHANGED <<job_offer, response, relevant_skills, relevant_education,
                relevant_projects, relevant_work_experiences, exp_i, proj_j,
                years_exp, summary_parts, resume, markdown_content,
                parse_vars, session>>

MainInit ==
    /\ developer = None
    /\ job_offer = None
    /\ pc = "idle"
    /\ FreshLocals
    /\ OtherIdle

\* a file is uploaded and parse_pdf returns its text: Developer.from_text is
\* called next
ParsePdf ==
    /\ pc = "idle"
    /\ pc' = "Developer.from_text"
    /\ calls' = <<main_call("parse_pdf", "returned")>>
    /\ page' = "parsing"
    /\ developer' = None
    /\ main_run_goes_on

\* parse_pdf raises: the error is shown, text_content stays unbound and
\* Developer.from_text(text_content) raises NameError
ParsePdfRaises ==
    /\ pc = "idle"
    /\ pc' = "idle"
    /\ calls' = <<main_call("parse_pdf", "raised")>>
    /\ page' = "NameError"
    /\ developer' = None
    /\ main_run_goes_on

\* the parser answers Developer.from_text: the developer is converted, and
\* WorkExperience.from_text is called next
MainDeveloperAnswered(resp) ==
    /\ pc = "Developer.from_text"
    /\ LET result == developer_from_response(resp)
       IN  IF result = ValueError
           THEN main_run_raises(main_call("Developer.from_text", "raised"),
                                "ValueError")
           ELSE /\ pc' = "WorkExperience.from_text"
                /\ developer' = result.returned
                /\ calls' = Append(calls, main_call("Developer.from_text", "returned"))
                /\ page' = page
                /\ main_run_goes_on

\* the call of Developer.from_text raises
MainDeveloperCallRaises ==
    /\ pc = "Developer.from_text"
    /\ main_run_raises(main_call("Developer.from_text", "raised"), "call raised")

\* variant: the developer is stored as Developer.from_text returned it
stored_developer_as_parsed(dev, work_experiences) == dev

\* developer.work_experiences = work_experiences
stored_developer(dev, work_experiences) ==
    [dev EXCEPT !.work_experiences = work_experiences]

\* the parser answers WorkExperience.from_text: the list is converted, put
\* into the developer, and the developer is stored
MainWorkExperiencesAnswered(resp) ==
    /\ pc = "WorkExperience.from_text"
    /\ LET result == work_experiences_from_response(resp)
       IN  IF result = ValueError
           THEN main_run_raises(main_call("WorkExperience.from_text", "raised"),
                                "ValueError")
           ELSE /\ pc' = "idle"
                /\ developer' = None
                /\ calls' = Append(calls, main_call("WorkExperience.from_text",
                                                    "returned"))
                /\ page' = "stored"
                /\ parser_response' = resp
                /\ parsed' = result
                /\ session' = store(session, "developer",
                                    stored_developer(developer, result.returned))
                /\ UNCHANGED <<job_offer, response, relevant_skills,
                               relevant_education, relevant_projects,
                               relevant_work_experiences, exp_i, proj_j,
                               years_exp, summary_parts, resume,
                               markdown_content>>

\* the call of WorkExperience.from_text raises
MainWorkExperiencesCallRaises ==
    /\ pc = "WorkExperience.from_text"
    /\ main_run_raises(main_call("WorkExperience.from_text", "raised"),
                       "call raised")

MainNext ==
    \/ ParsePdf
    \/ ParsePdfRaises
    \/ \E resp \in MainDeveloperResponses : MainDeveloperAnswered(resp)
    \/ MainDeveloperCallRaises
    \/ \E resp \in MainWorkExperienceResponses : MainWorkExperiencesAnswered(resp)
    \/ MainWorkExperiencesCallRaises

MainSpec == MainInit /\ [][MainNext]_vars

-----------------------------------------------------------------------------
(* Properties of the main page.                                            *)

\* the three steps of a run of the main page that succeeded
AllThreeReturned ==
    <<main_call("parse_pdf", "returned"),
      main_call("Developer.from_text", "returned"),
      main_call("WorkExperience.from_text", "returned")>>

\* the step ends a run of the main page in which a step raised
MainRunFails ==
    /\ calls' # calls
    /\ calls'[Len(calls')].outcome = "raised"

\* C24: a step of the main page changes 'developer' in session state only at
\* the end of a run in which parse_pdf, Developer.from_text and
\* WorkExperience.from_text returned, in that order, and the value stored is
\* the parsed developer with work_experiences set to the list that
\* WorkExperience.from_text returned; a step in which one of the three raises
\* leaves the key as it was, absent or holding the developer stored before
C24_DeveloperStoredAfterAllThree ==
    [][/\ (\/ Key(session', "developer") # Key(session, "developer")
           \/ (page' = "stored" /\ calls' # calls))
              => /\ pc = "WorkExperience.from_text"
                 /\ developer # None
                 /\ calls' = AllThreeReturned
                 /\ parsed' = work_experiences_from_response(parser_response')
                 /\ parsed' # ValueError
                 /\ Key(session', "developer") =
                        [value |-> [developer EXCEPT
                                       !.work_experiences = parsed'.returned]]
       /\ MainRunFails =>
              /\ Key(session', "developer") = Key(session, "developer")
              /\ pc' = "idle"]_vars

\* a developer with one work experience was stored by an earlier run; in
\* this run Developer.from_text returned and WorkExperience.from_text raised
\* on a date, and the stored developer is still there
C24_Witness ==
    /\ page = "ValueError"
    /\ Len(calls) = 3
    /\ calls[2] = main_call("Developer.from_text", "returned")
    /\ calls[3] = main_call("WorkExperience.from_text", "raised")
    /\ "developer" \in DOMAIN session
    /\ Len(session["developer"].work_experiences) = 1
    /\ Len(session["developer"].certifications) = 1

-----------------------------------------------------------------------------
(* The Job Offer page: a run parses the pasted text, fills the form from   *)
(* the parsed or the stored job offer, and saves the form when Save Job    *)
(* Offer was pressed.  job_offer is the local variable of the run, calls   *)
(* lists the calls of JobOffer.from_text of the run, page is what the run  *)
(* was given and what it showed.  Of a job offer the title, the company,   *)
(* the employment type and the requirements are kept.                      *)

\* a JobOffer with its employment type
JobOfferOfPage(job_title, company_name, employment_type, requirements) ==
    [job_title |-> job_title, company_name |-> company_name,
     employment_type |-> employment_type, requirements |-> requirements]

\* the options of the Employment Type selectbox
EmploymentTypes ==
    <<"Full-time", "Part-time", "Contract", "Freelance", "Non spécifié">>

\* xs.index(x): the first position of x (from 0), or ValueError
list_index(xs, x) ==
    IF \E k \in 1..Len(xs) : xs[k] = x
    THEN returns((CHOOSE k \in 1..Len(xs) :
                      /\ xs[k] = x
                      /\ \A n \in 1..(k - 1) : xs[n] # x) - 1)
    ELSE ValueError

RECURSIVE stripped_nonempty(_)
\* [s.strip() for s in pieces if s.strip()]
stripped_nonempty(pieces) ==
    IF Len(pieces) = 0 THEN <<>>
    ELSE (IF strip(pieces[1]) # "" THEN <<strip(pieces[1])>> ELSE <<>>)
         \o stripped_nonempty(Tail(pieces))

\* [s.strip() for s in text.split(",") if s.strip()]
text_items(text) == stripped_nonempty(split(text, ","))

\* JobOffer.from_text after chain.invoke answered: the fields are copied
job_offer_from_response(resp) ==
    JobOfferOfPage(resp.job_title, resp.company_name, resp.employment_type,
                   JobRequirements(resp.requirements.hard_skills,
                                   resp.requirements.soft_skills,
                                   resp.requirements.education_level,
                                   resp.requirements.certifications,
                                   resp.requirements.languages))

\* st.session_state.get(key, None)
session_get(state, key) == IF key \in DOMAIN state THEN state[key] ELSE None

\* the index of the Employment Type selectbox raises ValueError
form_raises(offer) ==
    /\ offer # None
    /\ list_index(EmploymentTypes, offer.employment_type) = ValueError

\* the values the widgets start from: those of job_offer, or the empty ones
form_defaults(offer) ==
    IF offer = None
    THEN [job_title |-> "", company_name |-> "",
          employment_type |-> EmploymentTypes[1],
          hard_skills_text |-> "", soft_skills_text |-> "",
          education_level |-> "", certifications_text |-> "",
          languages_text |-> ""]
    ELSE [job_title |-> offer.job_title, company_name |-> offer.company_name,
          employment_type |-> offer.employment_type,
          hard_skills_text |-> join(", ", offer.requirements.hard_skills),
          soft_skills_text |-> join(", ", offer.requirements.soft_skills),
          education_level |-> offer.requirements.education_level,
          certifications_text |-> join(", ", offer.requirements.certifications),
          languages_text |-> join(", ", offer.requirements.languages)]

\* the JobOffer that Save Job Offer builds from the values of the widgets
saved_job_offer(form) ==
    JobOfferOfPage(form.job_title, form.company_name, form.employment_type,
                   JobRequirements(text_items(form.hard_skills_text),
                                   text_items(form.soft_skills_text),
                                   form.education_level,
                                   text_items(form.certifications_text),
                                   text_items(form.languages_text)))

\* what the parser service answers: two offers with an employment type of the
\* selectbox, one with another
JobOfferResponses ==
    {JobOfferOfPage("Backend Developer", "Data Works", "Full-time",
                    JobRequirements(<<"Python", "SQL">>, <<"Teamwork">>,
                                    "Bachelor's", <<>>, <<"English">>)),
     JobOfferOfPage("Data Engineer", "Data Works", "Contract",
                    JobRequirements(<<"Python">>, <<>>, "", <<"AWS Certified">>,
                                    <<>>)),
     JobOfferOfPage("Backend Developer", "Data Works", "Internship",
                    JobRequirements(<<"Python", "SQL">>, <<"Teamwork">>,
                                    "Bachelor's", <<>>, <<"English">>))}

\* the content of the text area: empty, or a pasted offer
JobOfferTexts == {"", "Backend developer wanted"}

\* the values of the widgets in a run: the defaults, or the defaults with one
\* widget changed by the user
FormsFrom(defaults) ==
    {defaults,
     [defaults EXCEPT !.job_title = "Staff Engineer"],
     [defaults EXCEPT !.employment_type = "Part-time"],
     [defaults EXCEPT !.hard_skills_text = "Python, , Go "]}

\* one chain.invoke of the job offer parser, with how it ended
job_offer_call(outcome) == [kind |-> "JobOffer.from_text", outcome |-> outcome]

\* what a run was given and what it has shown so far
PageShown(job_offer_text, save_pressed, message) ==
    [job_offer_text |-> job_offer_text, save_pressed |-> save_pressed,
     message |-> message, raised |-> "no", form |-> None, saved |-> FALSE]

\* what no step of the page touches
job_offer_page_leaves ==
    UNCHANGED <<developer, response, relevant_skills, relevant_education,
                relevant_projects, relevant_work_experiences, exp_i, proj_j,
                years_exp, summary_parts, resume, markdown_content, parsed>>

JobOfferInit ==
    /\ developer = None
    /\ job_offer = None
    /\ pc = "idle"
    /\ FreshLocals
    /\ parser_response = None
    /\ parsed = None
    /\ session = empty_session
    /\ page = PageShown("", FALSE, "")

\* st.session_state['job_offer'] = job_offer, after from_text returned
store_parsed(state, offer) == store(state, "job_offer", offer)

\* a run with pasted text: from_text returns, the job offer is stored and
\* the success message is shown
JobOfferParsed(job_offer_text, save_pressed, resp) ==
    /\ pc = "idle"
    /\ job_offer_text # ""
    /\ calls' = <<job_offer_call("returned")>>
    /\ parser_response' = resp
    /\ job_offer' = job_offer_from_response(resp)
    /\ session' = store_parsed(session, job_offer_from_response(resp))
    /\ page' = PageShown(job_offer_text, save_pressed,
                         "Job offer parsed successfully!")
    /\ pc' = "form"
    /\ job_offer_page_leaves

\* a run with pasted text: from_text raises, the error is shown and the form
\* is filled from the stored job offer
JobOfferParseRaises(job_offer_text, save_pressed) ==
    /\ pc = "idle"
    /\ job_offer_text # ""
    /\ calls' = <<job_offer_call("raised")>>
    /\ parser_response' = None
    /\ job_offer' = session_get(session, "job_offer")
    /\ page' = PageShown(job_offer_text, save_pressed,
                         "Error parsing job offer")
    /\ pc' = "form"
    /\ UNCHANGED session
    /\ job_offer_page_leaves

\* a run with an empty text area: the form is filled from the stored job offer
JobOfferNoText(save_pressed) ==
    /\ pc = "idle"
    /\ calls' = <<>>
    /\ parser_response' = None
    /\ job_offer' = session_get(session, "job_offer")
    /\ page' = PageShown("", save_pressed, "")
    /\ pc' = "form"
    /\ UNCHANGED session
    /\ job_offer_page_leaves

\* the Employment Type selectbox raises ValueError: the script ends before the
\* rest of the form and the Save Job Offer button
JobOfferFormRaises ==
    /\ pc = "form"
    /\ form_raises(job_offer)
    /\ page' = [page EXCEPT !.raised = "ValueError"]
    /\ pc' = "idle"
    /\ UNCHANGED <<job_offer, calls, parser_response, session>>
    /\ job_offer_page_leaves

\* the form is shown with the values of its widgets; Save Job Offer was not
\* pressed
JobOfferFormShown(form) ==
    /\ pc = "form"
    /\ ~form_raises(job_offer)
    /\ ~page.save_pressed
    /\ page' = [page EXCEPT !.form = form]
    /\ pc' = "idle"
    /\ UNCHANGED <<job_offer, calls, parser_response, session>>
    /\ job_offer_page_leaves

\* the form is shown and Save Job Offer was pressed: the JobOffer built from
\* the widgets is stored
JobOfferSaved(form) ==
    /\ pc = "form"
    /\ ~form_raises(job_offer)
    /\ page.save_pressed
    /\ job_offer' = saved_job_offer(form)
    /\ session' = store(session, "job_offer", saved_job_offer(form))
    /\ page' = [page EXCEPT !.form = form, !.saved = TRUE]
    /\ pc' = "idle"
    /\ UNCHANGED <<calls, parser_response>>
    /\ job_offer_page_leaves

JobOfferNext ==
    \/ \E job_offer_text \in JobOfferTexts : \E save_pressed \in BOOLEAN :
           \E resp \in JobOfferResponses :
               JobOfferParsed(job_offer_text, save_pressed, resp)
    \/ \E job_offer_text \in JobOfferTexts : \E save_pressed \in BOOLEAN :
           JobOfferParseRaises(job_offer_text, save_pressed)
    \/ \E save_pressed \in BOOLEAN : JobOfferNoText(save_pressed)
    \/ \E form \in FormsFrom(form_defaults(job_offer)) : JobOfferFormShown(form)
    \/ \E form \in FormsFrom(form_defaults(job_offer)) : JobOfferSaved(form)
    \/ JobOfferFormRaises

JobOfferSpec == JobOfferInit /\ [][JobOfferNext]_vars

-----------------------------------------------------------------------------
(* Properties of the Job Offer page.                                       *)

\* the step that parses the pasted text, and the step that ends the run
JobOfferTextRead == pc = "idle" /\ pc' = "form" /\ page'.job_offer_text # ""

JobOfferRunEnds == pc = "form" /\ pc' = "idle"

\* the parser raised in the run
ParseFailed == calls = <<job_offer_call("raised")>>

\* the parser answered in the run
ParseSucceeded == calls = <<job_offer_call("returned")>>

\* C22: when parsing the pasted text fails the error is shown and
\* session_state['job_offer'] keeps its value, and the run ends with the form
\* shown, its widgets starting from the stored job offer, or from the empty
\* values when none is stored
C22_ParseFailureShowsStoredOffer ==
    /\ [][JobOfferTextRead /\ ParseFailed' =>
              /\ page'.message = "Error parsing job offer"
              /\ Key(session', "job_offer") = Key(session, "job_offer")]_vars
    /\ [][JobOfferRunEnds /\ ParseFailed =>
              /\ page'.raised = "no"
              /\ page'.form \in
                     FormsFrom(form_defaults(session_get(session, "job_offer")))]_vars

\* C23: a run with pasted text calls the parser once and, when it answers,
\* stores the parsed job offer before the form is reached; a run in which Save
\* Job Offer was pressed ends with the values of the form stored, and a run
\* without Save in which the parser answered ends with the parsed job offer
\* stored
C23_ParsedThenSaved ==
    /\ [][JobOfferTextRead =>
              /\ Len(calls') = 1
              /\ ParseSucceeded' =>
                     Key(session', "job_offer") =
                         [value |-> job_offer_from_response(parser_response')]]_vars
    /\ [][JobOfferRunEnds /\ page.save_pressed =>
              /\ page'.form # None
              /\ Key(session', "job_offer") =
                     [value |-> saved_job_offer(page'.form)]]_vars
    /\ [][JobOfferRunEnds /\ ~page.save_pressed /\ ParseSucceeded =>
              Key(session', "job_offer") =
                  [value |-> job_offer_from_response(parser_response)]]_vars

====
